---- MODULE Spec2Model ----
(***************************************************************************)
(* State machine of pynav's manifold state library (pynav/lib/states.py)   *)
(* and of its process / measurement models (pynav/lib/models.py).          *)
(*                                                                         *)
(* Python objects live in a heap (heap: object id -> State object) and     *)
(* numpy arrays in a second heap (buf: buffer id -> array data), so that   *)
(* "the same object" and "a shared buffer" are things the model can tell   *)
(* from "an equal value".  A state object's value field holds a buffer id; *)
(* a CompositeState's subs field holds the ids of its sub-state objects.   *)
(*                                                                         *)
(* The Lie-group backend (pylie) is outside the repository.  It is stood   *)
(* in for by finite groups with the properties the library relies on:      *)
(* SO(2) is the rotations by quarter turns, SE(2) the quarter turns with   *)
(* translations on the lattice Z_Modulus x Z_Modulus (a non-commutative    *)
(* group).  Exp/Log are the coordinate chart of that group: Exp(Log(X))=X, *)
(* and Log(Exp(xi)) = xi for xi inside the chart.  Reals are integers.     *)
(***************************************************************************)
EXTENDS Integers, Sequences, FiniteSets, TLC

(***************************************************************************)
(* Bounds of the model.                                                    *)
(***************************************************************************)
\* mutating calls (plus, plus_by_id, evaluate, setters, stamps) in one behaviour;
\* the caller's one y = x.copy() is not counted
MaxOps == 1
\* sub-states in one CompositeState
MaxSub == 2
\* the translation lattice of the SE(2) stand-in is Z_Modulus x Z_Modulus
Modulus == 2

(***************************************************************************)
(* Helpers.                                                                *)
(***************************************************************************)
RECURSIVE SortedSeq(_)
SortedSeq(S) ==
    IF S = {} THEN <<>>
    ELSE LET m == CHOOSE a \in S : \A b \in S : a <= b
         IN  <<m>> \o SortedSeq(S \ {m})

RECURSIVE SumSeq(_)
SumSeq(q) == IF q = <<>> THEN 0 ELSE Head(q) + SumSeq(Tail(q))

Range(q) == {q[i] : i \in DOMAIN q}

\* q[a:b], a Python slice of a sequence (0-based, half-open, clipped to q)
PySlice(q, a, b) ==
    LET lo == IF a > Len(q) THEN Len(q) ELSE a
        hi == IF b > Len(q) THEN Len(q) ELSE b
    IN  IF hi <= lo THEN <<>> ELSE [i \in 1..(hi - lo) |-> q[lo + i]]

\* results of a call: a value, or a raised exception
Ok(v) == [ok |-> TRUE, val |-> v, exc |-> "None"]
Raise(e) == [ok |-> FALSE, val |-> <<>>, exc |-> e]

(***************************************************************************)
(* The Lie-group backend: group elements are coordinate tuples,            *)
(* SO2: <<turns>>, SE2: <<turns, px, py>>.                                 *)
(***************************************************************************)
Groups == {"SO2", "SE2"}

GroupDof(g) == IF g = "SO2" THEN 1 ELSE 3

\* the rotation by k quarter turns applied to the lattice point <<px, py>>
RECURSIVE Rot(_, _)
Rot(k, r) ==
    IF k % 4 = 0 THEN r
    ELSE Rot((k % 4) - 1, <<(0 - r[2]) % Modulus, r[1] % Modulus>>)

GroupElements(g) ==
    IF g = "SO2" THEN {<<t>> : t \in 0..3}
    ELSE {<<t, px, py>> : t \in 0..3, px \in 0..(Modulus - 1), py \in 0..(Modulus - 1)}

GroupIdentity(g) == IF g = "SO2" THEN <<0>> ELSE <<0, 0, 0>>

\* X @ Y, the group composition of two elements
Compose(g, X, Y) ==
    IF g = "SO2" THEN <<(X[1] + Y[1]) % 4>>
    ELSE LET r == Rot(X[1], <<Y[2], Y[3]>>)
         IN  <<(X[1] + Y[1]) % 4, (X[2] + r[1]) % Modulus, (X[3] + r[2]) % Modulus>>

\* group.inverse(X)
Inverse(g, X) ==
    IF g = "SO2" THEN <<(0 - X[1]) % 4>>
    ELSE LET r == Rot(0 - X[1], <<(0 - X[2]) % Modulus, (0 - X[3]) % Modulus>>)
         IN  <<(0 - X[1]) % 4, r[1], r[2]>>

\* group.Exp(xi): a tangent vector of the group's dof to a group element; another
\* length is refused by the backend
Exp(g, xi) ==
    IF Len(xi) # GroupDof(g) THEN Raise("ValueError")
    ELSE IF g = "SO2" THEN Ok(<<xi[1] % 4>>)
    ELSE Ok(<<xi[1] % 4, xi[2] % Modulus, xi[3] % Modulus>>)

\* group.Log(X): the tangent coordinates of X, a column of shape (dof, 1)
Log(g, X) == [shape |-> <<GroupDof(g), 1>>, data |-> X]

(***************************************************************************)
(* State objects.  cls is the Python class; value is the id of the buffer  *)
(* holding a leaf state's array (0 for a composite); subs, slices are a    *)
(* CompositeState's value list and _slices (empty for a leaf); dof is the  *)
(* dof fixed by the constructor (a composite's dof is a computed property).*)
(* None is the string "None".                                              *)
(***************************************************************************)
NObj == 2 * (MaxSub + 1)
ObjIds == 1..NObj
NBuf == 2 * MaxSub + 2
BufIds == 1..NBuf

LieClasses == {"SO2State", "SE2State"}
LeafClasses == {"VectorState"} \cup LieClasses

ClsGroup(cls) == IF cls = "SO2State" THEN "SO2" ELSE "SE2"

FreeObj ==
    [cls |-> "free", value |-> 0, subs |-> <<>>, dof |-> 0, stamp |-> "None",
     state_id |-> "None", direction |-> "None", slices |-> <<>>]

\* VectorState.__init__: value raveled (np.array copies it), dof = value.size
VectorState(bufid, size, stamp, state_id) ==
    [cls |-> "VectorState", value |-> bufid, subs |-> <<>>, dof |-> size,
     stamp |-> stamp, state_id |-> state_id, direction |-> "None", slices |-> <<>>]

\* MatrixLieGroupState.__init__ through SO2State / SE2State.__init__:
\* the value is kept by reference, dof = group.dof
MatrixLieGroupState(cls, bufid, stamp, state_id, direction) ==
    [cls |-> cls, value |-> bufid, subs |-> <<>>, dof |-> GroupDof(ClsGroup(cls)),
     stamp |-> stamp, state_id |-> state_id, direction |-> direction, slices |-> <<>>]

\* numpy's a + b and a - b on two 1-D arrays, with broadcasting of a length-1 operand
VecAdd(a, b) ==
    IF Len(a) = Len(b) THEN Ok([i \in 1..Len(a) |-> a[i] + b[i]])
    ELSE IF Len(b) = 1 THEN Ok([i \in 1..Len(a) |-> a[i] + b[1]])
    ELSE IF Len(a) = 1 THEN Ok([i \in 1..Len(b) |-> a[1] + b[i]])
    ELSE Raise("ValueError")

VecSub(a, b) ==
    IF Len(a) = Len(b) THEN Ok([i \in 1..Len(a) |-> a[i] - b[i]])
    ELSE IF Len(b) = 1 THEN Ok([i \in 1..Len(a) |-> a[i] - b[1]])
    ELSE IF Len(a) = 1 THEN Ok([i \in 1..Len(b) |-> a[1] - b[i]])
    ELSE Raise("ValueError")

Scale(k, v) == [i \in 1..Len(v) |-> k * v[i]]

\* VectorState.plus: the new value, value.flatten() + dx.flatten()
VectorState_plus(value, dx) == VecAdd(value, dx)

\* a slip in minus: the operands swapped, x.value - self.value
MinusSwapped(value, xvalue) ==
    LET r == VecSub(xvalue, value)
    IN  IF r.ok THEN Ok([shape |-> <<Len(r.val)>>, data |-> r.val]) ELSE r

\* VectorState.minus: self.value - x.value, a 1-D array
VectorState_minus(value, xvalue) ==
    LET r == VecSub(value, xvalue)
    IN  IF r.ok THEN Ok([shape |-> <<Len(r.val)>>, data |-> r.val]) ELSE r

\* MatrixLieGroupState.plus: the new value, by the perturbation direction
MatrixLieGroupState_plus(group, direction, value, dx) ==
    LET e == Exp(group, dx)
    IN  IF direction = "right"
        THEN (IF e.ok THEN Ok(Compose(group, value, e.val)) ELSE e)
        ELSE IF direction = "left"
        THEN (IF e.ok THEN Ok(Compose(group, e.val, value)) ELSE e)
        ELSE Raise("ValueError")

\* a slip in minus: the direction is not looked at, Log(x^-1 self) always
MinusIgnoringDirection(group, direction, value, xvalue) ==
    Ok(Log(group, Compose(group, Inverse(group, xvalue), value)))

\* MatrixLieGroupState.minus: Log(x^-1 self) or Log(self x^-1)
MatrixLieGroupState_minus(group, direction, value, xvalue) ==
    IF direction = "right"
    THEN Ok(Log(group, Compose(group, Inverse(group, xvalue), value)))
    ELSE IF direction = "left"
    THEN Ok(Log(group, Compose(group, value, Inverse(group, xvalue))))
    ELSE Raise("ValueError")

(***************************************************************************)
(* Calls on heap objects.  A call yields the heap and the buffers after it,*)
(* what it returned (or raised), and the sub-state plus calls it made.     *)
(***************************************************************************)
RetNone == [tag |-> "None"]
RetRef(o) == [tag |-> "ref", obj |-> o]
RetInt(i) == [tag |-> "int", val |-> i]
RetSlice(s) == [tag |-> "slice", start |-> s.start, stop |-> s.stop]
RetArray(a) == [tag |-> "array", shape |-> a.shape, data |-> a.data]
RetMatrix(rows, cols, expr) == [tag |-> "matrix", shape |-> <<rows, cols>>, expr |-> expr]
RetRaise(e) == [tag |-> "raise", exc |-> e]

Res(h, b, r, calls) == [heap |-> h, buf |-> b, ret |-> r, calls |-> calls]

\* the objects a root reaches: itself and, for a composite, its sub-states
Reach(h, o) == IF o = 0 THEN {} ELSE {o} \cup Range(h[o].subs)

\* the buffers held by objects other than o
HeldByOthers(h, o) ==
    {h[p].value : p \in {q \in ObjIds : q # o /\ h[q].cls \in LeafClasses}}

\* the buffer of a newly made array bound to o.value: o's old buffer when nothing
\* else holds it (the old array is dropped), else an unused one
FreshBuf(h, o) ==
    IF h[o].value \in BufIds /\ h[o].value \notin HeldByOthers(h, o) THEN h[o].value
    ELSE CHOOSE n \in BufIds \ HeldByOthers(h, o) :
             \A m \in BufIds \ HeldByOthers(h, o) : n <= m

\* drop what no root reaches (Python's garbage)
Gc(h, b, rts) ==
    LET keep == Reach(h, rts.x) \cup Reach(h, rts.y)
        h2 == [o \in ObjIds |-> IF o \in keep THEN h[o] ELSE FreeObj]
        held == {h2[o].value : o \in {q \in keep : h2[q].cls \in LeafClasses}}
    IN  [heap |-> h2, buf |-> [n \in BufIds |-> IF n \in held THEN b[n] ELSE <<>>]]

\* self.value = <new array> on a leaf state
Rebind(h, b, o, val) ==
    LET n == FreshBuf(h, o)
    IN  [heap |-> [h EXCEPT ![o].value = n], buf |-> [b EXCEPT ![n] = val]]

\* state.plus(dx) on a leaf state, by its class: VectorState.plus or
\* MatrixLieGroupState.plus; returns None
LeafPlus(h, b, o, dx) ==
    LET r == IF h[o].cls = "VectorState"
             THEN VectorState_plus(b[h[o].value], dx)
             ELSE MatrixLieGroupState_plus(ClsGroup(h[o].cls), h[o].direction,
                                           b[h[o].value], dx)
        n == Rebind(h, b, o, r.val)
    IN  IF r.ok THEN Res(n.heap, n.buf, RetNone, <<>>)
        ELSE Res(h, b, RetRaise(r.exc), <<>>)

\* state.minus(x) on two leaf states, by the class of self
LeafMinus(h, b, o, x) ==
    IF h[o].cls = "VectorState"
    THEN VectorState_minus(b[h[o].value], b[h[x].value])
    ELSE MatrixLieGroupState_minus(ClsGroup(h[o].cls), h[o].direction,
                                   b[h[o].value], b[h[x].value])

(***************************************************************************)
(* CompositeState.                                                         *)
(***************************************************************************)
\* CompositeState.__init__, the loop that fills _slices: slice i is
\* [counter, counter + dof_i), counter advancing by dof_i
RECURSIVE SlicesFrom(_, _)
SlicesFrom(dofs, counter) ==
    IF dofs = <<>> THEN <<>>
    ELSE <<[start |-> counter, stop |-> counter + Head(dofs)]>>
         \o SlicesFrom(Tail(dofs), counter + Head(dofs))

\* a slip in the loop: slice(counter, state.dof) in place of
\* slice(counter, counter + state.dof)
SlicesStopIsDof(dofs) ==
    [i \in DOMAIN dofs |-> [start |-> SlicesFrom(dofs, 0)[i].start, stop |-> dofs[i]]]

Slices(dofs) == SlicesFrom(dofs, 0)

\* CompositeState.__init__(state_list, stamp, state_id)
CompositeState(h, state_list, stamp, state_id) ==
    [cls |-> "CompositeState", value |-> 0, subs |-> state_list, dof |-> 0,
     stamp |-> stamp, state_id |-> state_id, direction |-> "None",
     slices |-> Slices([i \in DOMAIN state_list |-> h[state_list[i]].dof])]

\* the dof property: sum([x.dof for x in self.value])
Dof(h, o) ==
    IF h[o].cls = "CompositeState"
    THEN SumSeq([i \in DOMAIN h[o].subs |-> h[h[o].subs[i]].dof])
    ELSE h[o].dof

\* a slip in the scan: the last match in place of the first
IndexOfLastMatch(h, o, state_id) ==
    LET hits == {i \in DOMAIN h[o].subs : h[h[o].subs[i]].state_id = state_id}
    IN  IF hits = {} THEN Raise("ValueError")
        ELSE Ok((CHOOSE i \in hits : \A j \in hits : i >= j) - 1)

\* get_index_by_id: [x.state_id for x in self.value].index(state_id), 0-based
get_index_by_id(h, o, state_id) ==
    LET hits == {i \in DOMAIN h[o].subs : h[h[o].subs[i]].state_id = state_id}
    IN  IF hits = {} THEN Raise("ValueError")
        ELSE Ok((CHOOSE i \in hits : \A j \in hits : i <= j) - 1)

get_slice_by_id(h, o, state_id) ==
    LET idx == get_index_by_id(h, o, state_id)
    IN  IF idx.ok THEN Ok(h[o].slices[idx.val + 1]) ELSE idx

get_state_by_id(h, o, state_id) ==
    LET idx == get_index_by_id(h, o, state_id)
    IN  IF idx.ok THEN Ok(h[o].subs[idx.val + 1]) ELSE idx

\* set_stamp_by_id(stamp, state_id)
set_stamp_by_id(h, b, o, stamp, state_id) ==
    LET idx == get_index_by_id(h, o, state_id)
    IN  IF idx.ok
        THEN Res([h EXCEPT ![h[o].subs[idx.val + 1]].stamp = stamp], b, RetNone, <<>>)
        ELSE Res(h, b, RetRaise(idx.exc), <<>>)

\* set_stamp_for_all(stamp): every sub-state of the list gets the stamp
set_stamp_for_all(h, b, o, stamp) ==
    Res([p \in ObjIds |-> IF p \in Range(h[o].subs) THEN [h[p] EXCEPT !.stamp = stamp]
                          ELSE h[p]],
        b, RetNone, <<>>)

\* the loop of CompositeState.plus from slice i on: sub_dx = dx[s];
\* self.value[i].plus(sub_dx).  A raising sub-state plus ends the loop with the
\* earlier sub-states already updated.
RECURSIVE PlusLoop(_, _, _, _, _, _)
PlusLoop(h, b, o, dx, i, calls) ==
    IF i > Len(h[o].slices) THEN Res(h, b, RetNone, calls)
    ELSE LET s == h[o].slices[i]
             sub_dx == PySlice(dx, s.start, s.stop)
             r == LeafPlus(h, b, h[o].subs[i], sub_dx)
             made == Append(calls, [obj |-> h[o].subs[i], dx |-> sub_dx])
         IN  IF r.ret.tag = "raise" THEN Res(r.heap, r.buf, r.ret, made)
             ELSE PlusLoop(r.heap, r.buf, o, dx, i + 1, made)

\* a slip in plus: the new stamp is dropped
PlusWithoutStamp(h, b, o, dx, new_stamp) == PlusLoop(h, b, o, dx, 1, <<>>)

\* CompositeState.plus(dx, new_stamp)
CompositeState_plus(h, b, o, dx, new_stamp) ==
    LET r == PlusLoop(h, b, o, dx, 1, <<>>)
    IN  IF r.ret.tag = "raise" \/ new_stamp = "None" THEN r
        ELSE Res(set_stamp_for_all(r.heap, r.buf, o, new_stamp).heap, r.buf, RetNone,
                 r.calls)

\* CompositeState.plus_by_id(dx, state_id, new_stamp)
plus_by_id(h, b, o, dx, state_id, new_stamp) ==
    LET idx == get_index_by_id(h, o, state_id)
        sub == h[o].subs[idx.val + 1]
        r == LeafPlus(h, b, sub, dx)
        made == <<[obj |-> sub, dx |-> dx]>>
    IN  IF ~idx.ok THEN Res(h, b, RetRaise(idx.exc), <<>>)
        ELSE IF r.ret.tag = "raise" THEN Res(r.heap, r.buf, r.ret, made)
        ELSE IF new_stamp = "None" THEN Res(r.heap, r.buf, RetNone, made)
        ELSE Res(set_stamp_by_id(r.heap, r.buf, o, new_stamp, state_id).heap, r.buf,
                 RetNone, made)

\* np.vstack(dx) of the sub-states' minus results: each 1-D array of length n is
\* taken as a row (1, n); all must have the same number of columns; an empty
\* list is refused
RECURSIVE Concat(_)
Concat(qs) == IF qs = <<>> THEN <<>> ELSE Head(qs) \o Concat(Tail(qs))

Rows(a) == IF Len(a.shape) = 1 THEN 1 ELSE a.shape[1]
Cols(a) == IF Len(a.shape) = 1 THEN a.shape[1] ELSE a.shape[2]

vstack(arrs) ==
    IF arrs = <<>> THEN Raise("ValueError")
    ELSE IF \E i \in DOMAIN arrs : Cols(arrs[i]) # Cols(arrs[1]) THEN Raise("ValueError")
    ELSE Ok([shape |-> <<SumSeq([i \in DOMAIN arrs |-> Rows(arrs[i])]), Cols(arrs[1])>>,
             data |-> Concat([i \in DOMAIN arrs |-> arrs[i].data])])

\* the loop of CompositeState.minus from position i on: for i, v in
\* enumerate(x.value): dx.append(self.value[i].minus(x.value[i]))
RECURSIVE MinusLoop(_, _, _, _, _, _)
MinusLoop(h, b, o, x, i, dx) ==
    IF i > Len(h[x].subs) THEN Ok(dx)
    ELSE IF i > Len(h[o].subs) THEN Raise("IndexError")
    ELSE LET r == LeafMinus(h, b, h[o].subs[i], h[x].subs[i])
         IN  IF r.ok THEN MinusLoop(h, b, o, x, i + 1, Append(dx, r.val)) ELSE r

\* CompositeState.minus(x)
CompositeState_minus(h, b, o, x) ==
    LET dx == MinusLoop(h, b, o, x, 1, <<>>)
    IN  IF dx.ok THEN vstack(dx.val) ELSE dx

(***************************************************************************)
(* copy().  p is the id the new object gets, n an unused buffer id.        *)
(***************************************************************************)
\* a slip in copy: self.value handed on without .copy()
ValueShared(bufid, n) == bufid

\* self.value.copy(): the buffer the copied state's value lives in
ValueCopy(bufid, n) == n

\* VectorState.copy / MatrixLieGroupState.copy of leaf state o into object p.
\* VectorState's constructor copies its argument again and takes dof from the
\* size of the value; a Lie state's constructor keeps the array it is given.
LeafCopy(h, b, o, p, n) ==
    LET src == h[o]
        vb == IF src.cls = "VectorState" THEN n ELSE ValueCopy(src.value, n)
        obj == IF src.cls = "VectorState"
               THEN VectorState(vb, Len(b[src.value]), src.stamp, src.state_id)
               ELSE MatrixLieGroupState(src.cls, vb, src.stamp, src.state_id,
                                        src.direction)
    IN  [heap |-> [h EXCEPT ![p] = obj], buf |-> [b EXCEPT ![vb] = b[src.value]]]

\* [state.copy() for state in self.value]: the list of the copies' ids
CopiedList(subs, F) == [i \in DOMAIN subs |-> F[i + 1]]

\* CompositeState.copy: CompositeState([state.copy() for state in self.value],
\* self.stamp, self.state_id); F are unused object ids, G unused buffer ids
CompositeState_copy(h, b, o, F, G) ==
    LET k == Len(h[o].subs)
        step[i \in 0..k] ==
            IF i = 0 THEN [heap |-> h, buf |-> b]
            ELSE LeafCopy(step[i - 1].heap, step[i - 1].buf, h[o].subs[i], F[i + 1], G[i])
        hk == step[k].heap
        new_list == CopiedList(h[o].subs, F)
    IN  [heap |-> [hk EXCEPT ![F[1]] =
                      CompositeState(hk, new_list, h[o].stamp, h[o].state_id)],
         buf |-> step[k].buf]

\* state.copy() by class; the copy is object F[1]
StateCopy(h, b, o, F, G) ==
    IF h[o].cls = "CompositeState" THEN CompositeState_copy(h, b, o, F, G)
    ELSE LeafCopy(h, b, o, F[1], G[1])

(***************************************************************************)
(* Block setters of the Lie states.                                        *)
(***************************************************************************)
\* SO2State.attitude = C rebinds value to C; SE2State.attitude = C writes the
\* rotation block of the value array in place
SetAttitude(h, b, o, C) ==
    IF h[o].cls = "SO2State" THEN Rebind(h, b, o, C)
    ELSE [heap |-> h, buf |-> [b EXCEPT ![h[o].value] = <<C[1], @[2], @[3]>>]]

\* SE2State.position = r writes the translation column of the value array in place
SetPosition(h, b, o, r) ==
    [heap |-> h, buf |-> [b EXCEPT ![h[o].value] = <<@[1], r[1], r[2]>>]]

(***************************************************************************)
(* Process and measurement models (models.py).  A model is named by its    *)
(* class; an input u is a flat sequence (u.value), dt an integer.          *)
(***************************************************************************)
ProcessModels == {"SingleIntegrator", "BodyFrameVelocity", "RelativeBodyFrameVelocity"}

Neg(v) == [i \in 1..Len(v) |-> 0 - v[i]]

\* u.value.reshape((2, round(u.value.size / 2))): two rows, refused when the
\* size is odd
Reshape2(u) ==
    IF Len(u) % 2 # 0 THEN Raise("ValueError")
    ELSE Ok(<<PySlice(u, 0, Len(u) \div 2), PySlice(u, Len(u) \div 2, Len(u))>>)

\* SingleIntegrator.evaluate: x.value = x.value + dt * u.value; return x
SingleIntegrator_evaluate(h, b, o, u, dt) ==
    LET r == VecAdd(b[h[o].value], Scale(dt, u))
        n == Rebind(h, b, o, r.val)
    IN  IF r.ok THEN Res(n.heap, n.buf, RetRef(o), <<>>)
        ELSE Res(h, b, RetRaise(r.exc), <<>>)

\* BodyFrameVelocity.evaluate: x.value = x.value @ x.group.Exp(u.value * dt); return x
BodyFrameVelocity_evaluate(h, b, o, u, dt) ==
    LET g == ClsGroup(h[o].cls)
        e == Exp(g, Scale(dt, u))
        n == Rebind(h, b, o, Compose(g, b[h[o].value], e.val))
    IN  IF e.ok THEN Res(n.heap, n.buf, RetRef(o), <<>>)
        ELSE Res(h, b, RetRaise(e.exc), <<>>)

\* RelativeBodyFrameVelocity.evaluate:
\* x.value = Exp(-u[0] * dt) @ x.value @ Exp(u[1] * dt); return x
RelativeBodyFrameVelocity_evaluate(h, b, o, u, dt) ==
    LET g == ClsGroup(h[o].cls)
        uu == Reshape2(u)
        e1 == Exp(g, Scale(dt, Neg(uu.val[1])))
        e2 == Exp(g, Scale(dt, uu.val[2]))
        n == Rebind(h, b, o, Compose(g, Compose(g, e1.val, b[h[o].value]), e2.val))
    IN  IF ~uu.ok THEN Res(h, b, RetRaise(uu.exc), <<>>)
        ELSE IF ~e1.ok THEN Res(h, b, RetRaise(e1.exc), <<>>)
        ELSE IF ~e2.ok THEN Res(h, b, RetRaise(e2.exc), <<>>)
        ELSE Res(n.heap, n.buf, RetRef(o), <<>>)

\* model.evaluate(x, u, dt) by the model's class
ModelEvaluate(model, h, b, o, u, dt) ==
    IF model = "SingleIntegrator" THEN SingleIntegrator_evaluate(h, b, o, u, dt)
    ELSE IF model = "BodyFrameVelocity" THEN BodyFrameVelocity_evaluate(h, b, o, u, dt)
    ELSE RelativeBodyFrameVelocity_evaluate(h, b, o, u, dt)

\* the loop of CompositeProcessModel.evaluate from position i on:
\* x.value[i] = self._model_list[i].evaluate(x_sub, StampedValue(u.value[i]), dt)
RECURSIVE EvaluateLoop(_, _, _, _, _, _, _)
EvaluateLoop(model_list, h, b, o, u, dt, i) ==
    IF i > Len(h[o].subs) THEN Res(h, b, RetRef(o), <<>>)
    ELSE IF i > Len(u) \/ i > Len(model_list) THEN Res(h, b, RetRaise("IndexError"), <<>>)
    ELSE LET r == ModelEvaluate(model_list[i], h, b, h[o].subs[i], u[i], dt)
         IN  IF r.ret.tag = "raise" THEN r
             ELSE EvaluateLoop(model_list,
                               [r.heap EXCEPT ![o].subs[i] = r.ret.obj], r.buf, o, u, dt,
                               i + 1)

\* CompositeProcessModel.evaluate(x, u, dt); returns x
CompositeProcessModel_evaluate(model_list, h, b, o, u, dt) ==
    EvaluateLoop(model_list, h, b, o, u, dt, 1)

\* a slip in jacobian: the right-perturbation formula whatever the direction
JacobianAnyDirection(h, b, o, u, dt) ==
    LET e == Exp(ClsGroup(h[o].cls), Scale(dt, Neg(u)))
    IN  IF e.ok THEN Ok(RetMatrix(h[o].dof, h[o].dof, [fn |-> "adjoint", at |-> e.val]))
        ELSE e

\* BodyFrameVelocity.jacobian: Adjoint(Exp(-u dt)) for direction right
BodyFrameVelocity_jacobian(h, b, o, u, dt) ==
    LET g == ClsGroup(h[o].cls)
        e == Exp(g, Scale(dt, Neg(u)))
    IN  IF h[o].direction = "right"
        THEN (IF e.ok THEN Ok(RetMatrix(h[o].dof, h[o].dof, [fn |-> "adjoint", at |-> e.val]))
              ELSE e)
        ELSE Raise("NotImplementedError")

\* BodyFrameVelocity.covariance: L Q L^T, L = dt * left_jacobian(-u dt), right only
BodyFrameVelocity_covariance(h, b, o, u, dt) ==
    IF h[o].direction = "right"
    THEN (IF Len(u) = h[o].dof
          THEN Ok(RetMatrix(h[o].dof, h[o].dof, [fn |-> "LQLt", at |-> Scale(dt, Neg(u))]))
          ELSE Raise("ValueError"))
    ELSE Raise("NotImplementedError")

\* RelativeBodyFrameVelocity.jacobian: the input is reshaped, then
\* Adjoint(Exp(-u[1] dt)) for direction right
RelativeBodyFrameVelocity_jacobian(h, b, o, u, dt) ==
    LET g == ClsGroup(h[o].cls)
        uu == Reshape2(u)
        e == Exp(g, Scale(dt, Neg(uu.val[2])))
    IN  IF ~uu.ok THEN uu
        ELSE IF h[o].direction = "right"
        THEN (IF e.ok THEN Ok(RetMatrix(h[o].dof, h[o].dof, [fn |-> "adjoint", at |-> e.val]))
              ELSE e)
        ELSE Raise("NotImplementedError")

\* RelativeBodyFrameVelocity.covariance: L1 Q1 L1^T + L2 Q2 L2^T, right only
RelativeBodyFrameVelocity_covariance(h, b, o, u, dt) ==
    LET uu == Reshape2(u)
    IN  IF ~uu.ok THEN uu
        ELSE IF h[o].direction = "right"
        THEN (IF Len(uu.val[1]) = h[o].dof
              THEN Ok(RetMatrix(h[o].dof, h[o].dof,
                                [fn |-> "L1Q1L1t+L2Q2L2t", at |-> Scale(dt, u)]))
              ELSE Raise("ValueError"))
        ELSE Raise("NotImplementedError")

\* RangePoseToAnchor.jacobian: for direction right the attitude and position
\* blocks through x.jacobian_from_blocks (a state with no position property, or
\* with no jacobian_from_blocks, raises NotImplementedError); left is refused
RangePoseToAnchor_jacobian(h, b, o) ==
    IF h[o].direction = "right"
    THEN (IF h[o].cls = "SE2State"
          THEN Ok(RetMatrix(1, h[o].dof, [fn |-> "range", at |-> b[h[o].value]]))
          ELSE Raise("NotImplementedError"))
    ELSE Raise("NotImplementedError")

(***************************************************************************)
(* The state machine.                                                      *)
(*   heap, buf   the objects and the arrays                                *)
(*   roots       the caller's two variables: x, and y (0: unset), which is *)
(*               a second state or the result of y = x.copy()              *)
(*   last        the last call: its name, target, arguments, what it       *)
(*               returned or raised, the sub-state plus calls it made      *)
(*   nops        the number of mutating calls made so far                  *)
(*   rt          history: set by a successful plus(dx) on a root while the *)
(*               other root was an equal state, to [obj, base, dx]         *)
(*   models      the model objects the caller has constructed, in order    *)
(***************************************************************************)
VARIABLES heap, buf, roots, last, nops, rt, models

vars == <<heap, buf, roots, last, nops, rt, models>>

NoArgs ==
    [dx |-> <<>>, stamp |-> "None", id |-> "None", other |-> 0, u |-> <<>>, dt |-> 0,
     model |-> <<>>, way |-> "None"]

Call(op, target, args, ret, calls) ==
    [op |-> op, target |-> target, args |-> args, ret |-> ret, calls |-> calls]

NoRT == [obj |-> 0, base |-> 0, dx |-> <<>>]

\* what a call that returns Ok(v) / Raise(e) hands back
AsRet(r, ret) == IF r.ok THEN ret ELSE RetRaise(r.exc)

(***************************************************************************)
(* Inputs.                                                                 *)
(***************************************************************************)
Ones(n) == [i \in 1..n |-> 1]
Zeros(n) == [i \in 1..n |-> 0]
Unit(n, k) == [i \in 1..n |-> IF i = k THEN 1 ELSE 0]
\* tangent vectors of length n: zero, the unit vectors, all ones
Tangents(n) == {Zeros(n), Ones(n)} \cup {Unit(n, k) : k \in 1..n}
\* tangent vectors of the right length, and one too short and one too long
DxInputs(n) == Tangents(n) \cup {Ones(n + 1)} \cup (IF n > 0 THEN {Ones(n - 1)} ELSE {})
StampInputs == {"None", "t1"}
IdInputs == {"a", "b", "c"}
DtInputs == {2}
AttitudeInputs == {<<1>>, <<2>>}
PositionInputs == {<<1, 0>>, <<1, 1>>}

\* the leaf states a caller constructs: class, direction, value
LeafKinds ==
    {[cls |-> "VectorState", direction |-> "None", value |-> <<0>>],
     [cls |-> "VectorState", direction |-> "None", value |-> <<0, 0>>]}
    \cup {[cls |-> c, direction |-> d, value |-> GroupIdentity(ClsGroup(c))] :
              c \in LieClasses, d \in {"right", "left"}}

\* the values a leaf state of the kind may be constructed with
KindValues(k) ==
    IF k.cls = "VectorState" THEN [1..Len(k.value) -> {0, 1}]
    ELSE GroupElements(ClsGroup(k.cls))

Construct(k, bufid, value, stamp, state_id) ==
    IF k.cls = "VectorState" THEN VectorState(bufid, Len(value), stamp, state_id)
    ELSE MatrixLieGroupState(k.cls, bufid, stamp, state_id, k.direction)

EmptyHeap == [o \in ObjIds |-> FreeObj]
EmptyBuf == [n \in BufIds |-> <<>>]

\* x = CompositeState([s_1, ..., s_k]): the composite is object 1, sub-state i
\* is object i + 1 with its value in buffer i
CompositeHeap(kinds, ids) ==
    LET h1 == [o \in ObjIds |->
                  IF o - 1 \in DOMAIN kinds
                  THEN Construct(kinds[o - 1], o - 1, kinds[o - 1].value, kinds[o - 1].stamp,
                                 ids[o - 1])
                  ELSE FreeObj]
    IN  [h1 EXCEPT ![1] = CompositeState(h1, [i \in DOMAIN kinds |-> i + 1], "None", "None")]

CompositeBuf(kinds) ==
    [n \in BufIds |-> IF n \in DOMAIN kinds THEN kinds[n].value ELSE <<>>]

InitCommon ==
    /\ last = Call("init", 0, NoArgs, RetNone, <<>>)
    /\ nops = 0
    /\ rt = NoRT
    /\ models = <<>>

\* the states a caller stacks into a composite: heterogeneous in class, dof,
\* direction and stamp, two of them under the same state_id
SubStates ==
    {[cls |-> "VectorState", direction |-> "None", value |-> <<0>>, stamp |-> "t0",
      state_id |-> "a"],
     [cls |-> "VectorState", direction |-> "None", value |-> <<0, 0>>, stamp |-> "None",
      state_id |-> "b"],
     [cls |-> "SE2State", direction |-> "right", value |-> <<0, 0, 0>>, stamp |-> "t0",
      state_id |-> "a"],
     [cls |-> "SO2State", direction |-> "left", value |-> <<0>>, stamp |-> "None",
      state_id |-> "b"]}

\* the lists of up to MaxSub different states of SubStates, in any order
StateLists ==
    UNION {{q \in [1..n -> SubStates] : \A i, j \in 1..n : q[i] = q[j] => i = j} :
              n \in 0..MaxSub}

\* x is a leaf state or a composite of up to MaxSub leaf states; y is unset
Init ==
    /\ InitCommon
    /\ roots = [x |-> 1, y |-> 0]
    /\ \/ \E k \in LeafKinds :
             /\ heap = [EmptyHeap EXCEPT ![1] = Construct(k, 1, k.value, "None", "a")]
             /\ buf = [EmptyBuf EXCEPT ![1] = k.value]
       \/ \E kinds \in StateLists :
             /\ heap = CompositeHeap(kinds, [i \in DOMAIN kinds |-> kinds[i].state_id])
             /\ buf = CompositeBuf(kinds)

Live == Reach(heap, roots.x) \cup Reach(heap, roots.y)
Roots == {roots.x, roots.y} \ {0}
IsComposite(o) == heap[o].cls = "CompositeState"
IsLeaf(o) == heap[o].cls \in LeafClasses
IsLie(o) == heap[o].cls \in LieClasses

\* two states hold equal values (class, direction and arrays)
LeafEqual(h, b, o, p) ==
    /\ h[o].cls = h[p].cls
    /\ h[o].direction = h[p].direction
    /\ b[h[o].value] = b[h[p].value]

DeepEqual(h, b, o, p) ==
    IF h[o].cls = "CompositeState"
    THEN /\ h[p].cls = "CompositeState"
         /\ Len(h[o].subs) = Len(h[p].subs)
         /\ \A i \in DOMAIN h[o].subs : LeafEqual(h, b, h[o].subs[i], h[p].subs[i])
    ELSE LeafEqual(h, b, o, p)

\* the history rt after a plus(dx) on root o that ended with result r
PlusHistory(o, dx, r) ==
    IF r.ret.tag # "raise" /\ Len(dx) = Dof(heap, o)
       /\ \E p \in Roots \ {o} : DeepEqual(heap, buf, o, p)
    THEN [obj |-> o, base |-> CHOOSE p \in Roots \ {o} : DeepEqual(heap, buf, o, p),
          dx |-> dx]
    ELSE NoRT

\* a mutating call ends: the heap is cleaned of garbage
Mutated(r, call, hist) ==
    LET g == Gc(r.heap, r.buf, roots)
    IN  /\ heap' = g.heap
        /\ buf' = g.buf
        /\ last' = call
        /\ nops' = nops + 1
        /\ rt' = hist
        /\ UNCHANGED <<roots, models>>

\* a slip in a reading call: an intermediate accumulated in place, in the
\* array the state holds
WritesThroughView(call) ==
    /\ last' = call
    /\ buf' = [n \in BufIds |-> [i \in DOMAIN buf[n] |-> 1]]
    /\ UNCHANGED <<heap, roots, nops, rt, models>>

\* a call that changes nothing ends
Pure(call) ==
    /\ last' = call
    /\ UNCHANGED <<heap, buf, roots, nops, rt, models>>

(***************************************************************************)
(* Actions: one per call a caller can make on its states x and y.          *)
(***************************************************************************)
\* o.plus(dx) on a leaf state
CallLeafPlus ==
    \E o \in Roots : \E dx \in DxInputs(heap[o].dof) :
        /\ IsLeaf(o)
        /\ nops < MaxOps
        /\ LET r == LeafPlus(heap, buf, o, dx)
           IN  Mutated(r, Call("plus", o, [NoArgs EXCEPT !.dx = dx], r.ret, <<>>),
                       PlusHistory(o, dx, r))

\* o.plus(dx, new_stamp) on a composite state
CallCompositePlus ==
    \E o \in Roots : \E dx \in DxInputs(Dof(heap, o)) : \E new_stamp \in StampInputs :
        /\ IsComposite(o)
        /\ nops < MaxOps
        /\ LET r == CompositeState_plus(heap, buf, o, dx, new_stamp)
           IN  Mutated(r, Call("plus", o, [NoArgs EXCEPT !.dx = dx, !.stamp = new_stamp],
                               r.ret, r.calls),
                       PlusHistory(o, dx, r))

\* o.plus_by_id(dx, state_id, new_stamp)
CallPlusById ==
    \E o \in Roots : \E dx \in {Ones(n) : n \in 1..3} :
      \E state_id \in IdInputs : \E new_stamp \in StampInputs :
        /\ IsComposite(o)
        /\ nops < MaxOps
        /\ LET r == plus_by_id(heap, buf, o, dx, state_id, new_stamp)
           IN  Mutated(r, Call("plus_by_id", o,
                               [NoArgs EXCEPT !.dx = dx, !.stamp = new_stamp,
                                              !.id = state_id],
                               r.ret, r.calls),
                       NoRT)

\* o.minus(p) on two states of the same sort
CallMinus ==
    \E o \in Roots : \E p \in Roots :
        /\ IsComposite(o) = IsComposite(p)
        /\ LET r == IF IsComposite(o) THEN CompositeState_minus(heap, buf, o, p)
                    ELSE LeafMinus(heap, buf, o, p)
           IN  Pure(Call("minus", o, [NoArgs EXCEPT !.other = p],
                         IF r.ok THEN RetArray(r.val) ELSE RetRaise(r.exc), <<>>))

\* y = x.copy(), once
CallCopy ==
    /\ roots.y = 0
    /\ LET g == Gc(heap, buf, [x |-> roots.x, y |-> 0])
           F == SortedSeq({o \in ObjIds : g.heap[o].cls = "free"})
           G == SortedSeq({n \in BufIds :
                              \A o \in ObjIds : g.heap[o].cls \in LeafClasses
                                                   => g.heap[o].value # n})
           c == StateCopy(g.heap, g.buf, roots.x, F, G)
           n == Gc(c.heap, c.buf, [x |-> roots.x, y |-> F[1]])
       IN  /\ heap' = n.heap
           /\ buf' = n.buf
           /\ roots' = [roots EXCEPT !.y = F[1]]
           /\ last' = Call("copy", roots.x, NoArgs, RetRef(F[1]), <<>>)
           /\ rt' = NoRT
           /\ UNCHANGED <<nops, models>>

\* o.set_stamp_by_id(stamp, state_id)
CallSetStampById ==
    \E o \in Roots : \E state_id \in IdInputs :
        /\ IsComposite(o)
        /\ nops < MaxOps
        /\ LET r == set_stamp_by_id(heap, buf, o, "t2", state_id)
           IN  Mutated(r, Call("set_stamp_by_id", o,
                               [NoArgs EXCEPT !.stamp = "t2", !.id = state_id],
                               r.ret, <<>>),
                       NoRT)

\* o.set_stamp_for_all(stamp)
CallSetStampForAll ==
    \E o \in Roots :
        /\ IsComposite(o)
        /\ nops < MaxOps
        /\ LET r == set_stamp_for_all(heap, buf, o, "t2")
           IN  Mutated(r, Call("set_stamp_for_all", o, [NoArgs EXCEPT !.stamp = "t2"],
                               r.ret, <<>>),
                       NoRT)

\* o.get_index_by_id(state_id)
CallGetIndexById ==
    \E o \in Roots : \E state_id \in IdInputs :
        /\ IsComposite(o)
        /\ LET r == get_index_by_id(heap, o, state_id)
           IN  Pure(Call("get_index_by_id", o, [NoArgs EXCEPT !.id = state_id],
                         IF r.ok THEN RetInt(r.val) ELSE RetRaise(r.exc), <<>>))

\* o.get_slice_by_id(state_id)
CallGetSliceById ==
    \E o \in Roots : \E state_id \in IdInputs :
        /\ IsComposite(o)
        /\ LET r == get_slice_by_id(heap, o, state_id)
           IN  Pure(Call("get_slice_by_id", o, [NoArgs EXCEPT !.id = state_id],
                         IF r.ok THEN RetSlice(r.val) ELSE RetRaise(r.exc), <<>>))

\* o.get_state_by_id(state_id)
CallGetStateById ==
    \E o \in Roots : \E state_id \in IdInputs :
        /\ IsComposite(o)
        /\ LET r == get_state_by_id(heap, o, state_id)
           IN  Pure(Call("get_state_by_id", o, [NoArgs EXCEPT !.id = state_id],
                         IF r.ok THEN RetRef(r.val) ELSE RetRaise(r.exc), <<>>))

\* o.attitude = C on a Lie state (a root or a sub-state)
CallSetAttitude ==
    \E o \in Live : \E C \in AttitudeInputs :
        /\ IsLie(o)
        /\ nops < MaxOps
        /\ LET n == SetAttitude(heap, buf, o, C)
           IN  Mutated(Res(n.heap, n.buf, RetNone, <<>>),
                       Call("attitude.setter", o, [NoArgs EXCEPT !.dx = C], RetNone, <<>>),
                       NoRT)

\* o.position = r on a pose state (a root or a sub-state)
CallSetPosition ==
    \E o \in Live : \E r \in PositionInputs :
        /\ heap[o].cls = "SE2State"
        /\ nops < MaxOps
        /\ LET n == SetPosition(heap, buf, o, r)
           IN  Mutated(Res(n.heap, n.buf, RetNone, <<>>),
                       Call("position.setter", o, [NoArgs EXCEPT !.dx = r], RetNone, <<>>),
                       NoRT)

\* the process models a caller pairs with a state of the class
ModelsFor(cls) ==
    IF cls = "VectorState" THEN {"SingleIntegrator"}
    ELSE {"BodyFrameVelocity", "RelativeBodyFrameVelocity"}

\* the inputs a caller gives the model for a state of dof n
UInputs(model, n) ==
    IF model = "RelativeBodyFrameVelocity" THEN {Ones(n) \o v : v \in Tangents(n)}
    ELSE Tangents(n)

\* model.evaluate(o, u, dt) on a leaf state
CallEvaluate ==
    \E o \in Roots : \E model \in ProcessModels : \E dt \in DtInputs :
      \E u \in UInputs(model, heap[o].dof) :
        /\ IsLeaf(o)
        /\ model \in ModelsFor(heap[o].cls)
        /\ nops < MaxOps
        /\ LET r == ModelEvaluate(model, heap, buf, o, u, dt)
           IN  Mutated(r, Call("evaluate", o,
                               [NoArgs EXCEPT !.u = u, !.dt = dt, !.model = model],
                               r.ret, <<>>),
                       NoRT)

\* CompositeProcessModel(model_list).evaluate(o, u, dt), one model and one input
\* per sub-state
CallCompositeEvaluate ==
    \E o \in Roots : \E dt \in DtInputs :
      \E model_list \in [DOMAIN heap[o].subs -> ProcessModels] :
        /\ IsComposite(o)
        /\ \A i \in DOMAIN model_list : model_list[i] \in ModelsFor(heap[heap[o].subs[i]].cls)
        /\ nops < MaxOps
        /\ LET u == [i \in DOMAIN model_list |->
                        IF model_list[i] = "RelativeBodyFrameVelocity"
                        THEN Ones(2 * heap[heap[o].subs[i]].dof)
                        ELSE Ones(heap[heap[o].subs[i]].dof)]
               r == CompositeProcessModel_evaluate(model_list, heap, buf, o, u, dt)
           IN  Mutated(r, Call("evaluate", o,
                               [NoArgs EXCEPT !.u = u, !.dt = dt, !.model = model_list],
                               r.ret, <<>>),
                       NoRT)

(***************************************************************************)
(* Spec: the states under plus, plus_by_id, minus, copy, the stamp setters,*)
(* the block setters and the process models' evaluate.                     *)
(***************************************************************************)
Next ==
    \/ CallLeafPlus
    \/ CallCompositePlus
    \/ CallPlusById
    \/ CallMinus
    \/ CallCopy
    \/ CallSetStampById
    \/ CallSetStampForAll
    \/ CallSetAttitude
    \/ CallSetPosition
    \/ CallEvaluate
    \/ CallCompositeEvaluate

Spec == Init /\ [][Next]_vars

(***************************************************************************)
(* SpecAddress: the identifier lookups, on x and on its copy, before and   *)
(* after the calls that address a sub-state by identifier.                 *)
(***************************************************************************)
NextAddress ==
    \/ CallGetIndexById
    \/ CallGetSliceById
    \/ CallGetStateById
    \/ CallCopy
    \/ CallPlusById
    \/ CallSetStampById

SpecAddress == Init /\ [][NextAddress]_vars

(***************************************************************************)
(* SpecRetract: two leaf states x, y of one class and direction, with any  *)
(* values; o.minus(p), and then the plus of that difference onto either    *)
(* operand.                                                                *)
(***************************************************************************)
InitRetract ==
    /\ InitCommon
    /\ roots = [x |-> 1, y |-> 2]
    /\ \E k \in LeafKinds : \E vx \in KindValues(k) : \E vy \in KindValues(k) :
          /\ heap = [EmptyHeap EXCEPT ![1] = Construct(k, 1, vx, "None", "a"),
                                      ![2] = Construct(k, 2, vy, "None", "b")]
          /\ buf = [EmptyBuf EXCEPT ![1] = vx, ![2] = vy]

\* t.plus(o.minus(p)), t being o (way "self") or p (way "arg"), right after the
\* call o.minus(p)
CallPlusOfMinus ==
    \E way \in {"self", "arg"} :
        /\ last.op = "minus"
        /\ last.ret.tag = "array"
        /\ nops < MaxOps
        /\ LET t == IF way = "self" THEN last.target ELSE last.args.other
               other == IF way = "self" THEN last.args.other ELSE last.target
               dx == last.ret.data
               r == LeafPlus(heap, buf, t, dx)
           IN  /\ IsLeaf(t)
               /\ Mutated(r, Call("plus", t,
                                  [NoArgs EXCEPT !.dx = dx, !.other = other, !.way = way],
                                  r.ret, <<>>),
                          NoRT)

NextRetract ==
    \/ CallMinus
    \/ CallPlusOfMinus

SpecRetract == InitRetract /\ [][NextRetract]_vars

(***************************************************************************)
(* SpecModels: one Lie state x with any value and direction; the Jacobians *)
(* and covariances of the kinematic models and of the range model.         *)
(***************************************************************************)
InitModels ==
    /\ InitCommon
    /\ roots = [x |-> 1, y |-> 0]
    /\ \E k \in LeafKinds : \E vx \in KindValues(k) :
          /\ k.cls \in LieClasses
          /\ heap = [EmptyHeap EXCEPT ![1] = Construct(k, 1, vx, "None", "a")]
          /\ buf = [EmptyBuf EXCEPT ![1] = vx]

ModelCall(op, model, o, u, dt, r) ==
    Pure(Call(op, o, [NoArgs EXCEPT !.u = u, !.dt = dt, !.model = model],
              IF r.ok THEN r.val ELSE RetRaise(r.exc), <<>>))

CallBodyFrameVelocityJacobian ==
    \E o \in Roots : \E dt \in DtInputs : \E u \in UInputs("BodyFrameVelocity", heap[o].dof) :
        /\ IsLie(o)
        /\ ModelCall("jacobian", "BodyFrameVelocity", o, u, dt,
                     BodyFrameVelocity_jacobian(heap, buf, o, u, dt))

CallBodyFrameVelocityCovariance ==
    \E o \in Roots : \E dt \in DtInputs : \E u \in UInputs("BodyFrameVelocity", heap[o].dof) :
        /\ IsLie(o)
        /\ ModelCall("covariance", "BodyFrameVelocity", o, u, dt,
                     BodyFrameVelocity_covariance(heap, buf, o, u, dt))

CallRelativeBodyFrameVelocityJacobian ==
    \E o \in Roots : \E dt \in DtInputs :
      \E u \in UInputs("RelativeBodyFrameVelocity", heap[o].dof) :
        /\ IsLie(o)
        /\ ModelCall("jacobian", "RelativeBodyFrameVelocity", o, u, dt,
                     RelativeBodyFrameVelocity_jacobian(heap, buf, o, u, dt))

CallRelativeBodyFrameVelocityCovariance ==
    \E o \in Roots : \E dt \in DtInputs :
      \E u \in UInputs("RelativeBodyFrameVelocity", heap[o].dof) :
        /\ IsLie(o)
        /\ ModelCall("covariance", "RelativeBodyFrameVelocity", o, u, dt,
                     RelativeBodyFrameVelocity_covariance(heap, buf, o, u, dt))

CallRangePoseToAnchorJacobian ==
    \E o \in Roots :
        /\ IsLie(o)
        /\ ModelCall("jacobian", "RangePoseToAnchor", o, <<>>, 0,
                     RangePoseToAnchor_jacobian(heap, buf, o))

NextModels ==
    \/ CallBodyFrameVelocityJacobian
    \/ CallBodyFrameVelocityCovariance
    \/ CallRelativeBodyFrameVelocityJacobian
    \/ CallRelativeBodyFrameVelocityCovariance
    \/ CallRangePoseToAnchorJacobian

SpecModels == InitModels /\ [][NextModels]_vars

(***************************************************************************)
(* Matrices.  A Jacobian is a grid of cells; a cell names the matrix       *)
(* expression it comes from and its place in it, or is zero.               *)
(***************************************************************************)
ZeroCell == [fn |-> "zero", at |-> <<>>, i |-> 0, j |-> 0]

\* the cells of a matrix, row by row
Cells(M) ==
    IF M.expr.fn = "cells" THEN M.expr.at
    ELSE [i \in 1..M.shape[1] |->
             [j \in 1..M.shape[2] |-> [fn |-> M.expr.fn, at |-> M.expr.at, i |-> i, j |-> j]]]

Matrix(cells, cols) == RetMatrix(Len(cells), cols, [fn |-> "cells", at |-> cells])

\* np.zeros((m, n))
zeros(m, n) == Matrix([i \in 1..m |-> [j \in 1..n |-> ZeroCell]], n)

\* jac[:, slc] = block: the slice is clipped to the columns of jac; block must
\* broadcast to the shape of the region it is written to
SetColumns(jac, slc, block) ==
    LET m == jac.shape[1]
        n == jac.shape[2]
        lo == IF slc.start < n THEN slc.start ELSE n
        hi == IF slc.stop < n THEN slc.stop ELSE n
        r == block.shape[1]
        c == block.shape[2]
        src == Cells(block)
        old == Cells(jac)
    IN  IF (r = m \/ r = 1) /\ (c = hi - lo \/ c = 1)
        THEN Ok(Matrix([i \in 1..m |->
                           [j \in 1..n |->
                               IF lo < j /\ j <= hi
                               THEN src[IF r = 1 THEN 1 ELSE i][IF c = 1 THEN 1 ELSE j - lo]
                               ELSE old[i][j]]], n))
        ELSE Raise("ValueError")

\* np.block([m_1, ..., m_k]) of a flat list: the matrices side by side
block(ms) ==
    IF \E k \in DOMAIN ms : ms[k].shape[1] # ms[1].shape[1] THEN Raise("ValueError")
    ELSE Ok(Matrix([i \in 1..ms[1].shape[1] |-> Concat([k \in DOMAIN ms |-> Cells(ms[k])[i]])],
                   SumSeq([k \in DOMAIN ms |-> ms[k].shape[2]])))

(***************************************************************************)
(* jacobian_from_blocks of the Lie states.  blocks maps each of attitude,  *)
(* position, velocity to the matrix passed under that name or to None.     *)
(***************************************************************************)
BlockClasses == {"SO2State", "SO3State", "SE2State", "SE3State", "SE23State"}
AllBlocks == {"attitude", "position", "velocity"}
NoBlocks == [attitude |-> RetNone, position |-> RetNone, velocity |-> RetNone]

\* the keyword parameters of the class's jacobian_from_blocks, in the order of
\* its loop
BlockNames(cls) ==
    IF cls = "SO3State" THEN <<"attitude">>
    ELSE IF cls \in {"SE2State", "SE3State"} THEN <<"attitude", "position">>
    ELSE <<"attitude", "position", "velocity">>

\* the order in which the class lays the blocks side by side
BlockOrder(cls) ==
    IF cls = "SE23State" THEN <<"attitude", "velocity", "position">> ELSE BlockNames(cls)

\* the width the class zero-fills a block with
BlockWidth(cls, name) ==
    IF cls = "SE2State" THEN (IF name = "attitude" THEN 1 ELSE 2) ELSE 3

\* dof of the group of the class
ClassDof(cls) ==
    IF cls = "SO2State" THEN 1
    ELSE IF cls \in {"SO3State", "SE2State"} THEN 3
    ELSE IF cls = "SE3State" THEN 6
    ELSE 9

\* cls.jacobian_from_blocks(**blocks).  SO2State has none of its own and
\* inherits MatrixLieGroupState's, which raises; SO3State's returns its one
\* mandatory argument; the others take dim from the last block given, zero-fill
\* the others and join them - and read dim unassigned when no block is given.
jacobian_from_blocks(cls, blocks) ==
    LET names == BlockNames(cls)
        given == SelectSeq(names, LAMBDA n : blocks[n].tag # "None")
        dim == blocks[given[Len(given)]].shape[1]
        order == BlockOrder(cls)
        filled == [k \in DOMAIN order |->
                      IF blocks[order[k]].tag = "None"
                      THEN zeros(dim, BlockWidth(cls, order[k]))
                      ELSE blocks[order[k]]]
    IN  IF cls = "SO2State" THEN Raise("NotImplementedError")
        ELSE IF \E n \in AllBlocks \ Range(names) : blocks[n].tag # "None"
        THEN Raise("TypeError")
        ELSE IF cls = "SO3State"
        THEN (IF given = <<>> THEN Raise("TypeError") ELSE Ok(blocks.attitude))
        ELSE IF given = <<>> THEN Raise("UnboundLocalError")
        ELSE block(filled)

(***************************************************************************)
(* Measurement models.  A model object is a record of its class and its    *)
(* parameters; a measurement is named by the expression it is computed by  *)
(* and the value it is computed at.                                        *)
(***************************************************************************)
RetValue(fn, at) == [tag |-> "value", expr |-> [fn |-> fn, at |-> at]]

RangePointToAnchor(anchor_position, R) ==
    [cls |-> "RangePointToAnchor", anchor |-> anchor_position, R |-> R]

RangePoseToAnchor(anchor_position, tag_body_position, R) ==
    [cls |-> "RangePoseToAnchor", anchor |-> anchor_position, tag |-> tag_body_position,
     R |-> R]

GlobalPosition(R) == [cls |-> "GlobalPosition", R |-> R]

CompositeMeasurementModel(model, state_id) ==
    [cls |-> "CompositeMeasurementModel", model |-> model, state_id |-> state_id]

\* RangePointToAnchor on a VectorState
RangePointToAnchor_evaluate(model, h, b, o) ==
    Ok(RetValue("RangePointToAnchor.evaluate", b[h[o].value]))

RangePointToAnchor_jacobian(model, h, b, o) ==
    Ok(RetMatrix(1, Len(b[h[o].value]),
                 [fn |-> "RangePointToAnchor.jacobian", at |-> b[h[o].value]]))

\* RangePoseToAnchor.evaluate on a Lie state: x.position is not implemented for
\* a state without a position block
RangePoseToAnchor_evaluate(model, h, b, o) ==
    IF h[o].cls = "SE2State" THEN Ok(RetValue("RangePoseToAnchor.evaluate", b[h[o].value]))
    ELSE Raise("NotImplementedError")

\* GlobalPosition.evaluate: x.position
GlobalPosition_evaluate(model, h, b, o) ==
    IF h[o].cls = "SE2State"
    THEN Ok(RetArray([shape |-> <<2>>, data |-> PySlice(b[h[o].value], 1, 3)]))
    ELSE Raise("NotImplementedError")

\* GlobalPosition.jacobian on a Lie state: the position block for direction
\* right, attitude and position blocks for left, through
\* x.jacobian_from_blocks
GlobalPosition_jacobian(model, h, b, o) ==
    LET v == b[h[o].value]
    IN  IF h[o].direction = "right"
        THEN jacobian_from_blocks(h[o].cls,
                 [NoBlocks EXCEPT !.position = RetMatrix(2, 2, [fn |-> "attitude", at |-> v])])
        ELSE IF h[o].cls # "SE2State" THEN Raise("NotImplementedError")
        ELSE jacobian_from_blocks(h[o].cls,
                 [NoBlocks EXCEPT !.attitude = RetMatrix(2, 1, [fn |-> "odot(position)", at |-> v]),
                                  !.position = RetMatrix(2, 2, [fn |-> "identity", at |-> <<>>])])

\* model.covariance(x) of the three: the parameter R
Measurement_covariance(model, h, b, o) == Ok(RetValue("R", model.R))

\* model.evaluate(x) / model.jacobian(x) by the class of the model
Measurement_evaluate(model, h, b, o) ==
    IF model.cls = "RangePointToAnchor" THEN RangePointToAnchor_evaluate(model, h, b, o)
    ELSE IF model.cls = "RangePoseToAnchor" THEN RangePoseToAnchor_evaluate(model, h, b, o)
    ELSE GlobalPosition_evaluate(model, h, b, o)

Measurement_jacobian(model, h, b, o) ==
    IF model.cls = "RangePointToAnchor" THEN RangePointToAnchor_jacobian(model, h, b, o)
    ELSE IF model.cls = "RangePoseToAnchor" THEN RangePoseToAnchor_jacobian(h, b, o)
    ELSE GlobalPosition_jacobian(model, h, b, o)

\* a slip in jacobian: the Jacobian as wide as the sub-state, not the composite
JacobianOfSubStateOnly(model, h, b, o) ==
    LET x_sub == get_state_by_id(h, o, model.state_id)
    IN  IF ~x_sub.ok THEN x_sub ELSE Measurement_jacobian(model.model, h, b, x_sub.val)

\* CompositeMeasurementModel.evaluate / jacobian / covariance
CompositeMeasurementModel_evaluate(model, h, b, o) ==
    LET x_sub == get_state_by_id(h, o, model.state_id)
    IN  IF ~x_sub.ok THEN x_sub ELSE Measurement_evaluate(model.model, h, b, x_sub.val)

CompositeMeasurementModel_jacobian(model, h, b, o) ==
    LET x_sub == get_state_by_id(h, o, model.state_id)
        jac_sub == Measurement_jacobian(model.model, h, b, x_sub.val)
        jac == zeros(jac_sub.val.shape[1], Dof(h, o))
        slc == get_slice_by_id(h, o, model.state_id)
    IN  IF ~x_sub.ok THEN x_sub
        ELSE IF ~jac_sub.ok THEN jac_sub
        ELSE SetColumns(jac, slc.val, jac_sub.val)

CompositeMeasurementModel_covariance(model, h, b, o) ==
    LET x_sub == get_state_by_id(h, o, model.state_id)
    IN  IF ~x_sub.ok THEN x_sub ELSE Measurement_covariance(model.model, h, b, x_sub.val)

(***************************************************************************)
(* SpecMeasure: a composite x of up to MaxSub + 1 sub-states and one       *)
(* CompositeMeasurementModel on one of its identifiers; the block setters  *)
(* move the poses, the model is evaluated.                                 *)
(***************************************************************************)
\* the measurement models a caller wraps
MeasurementModels ==
    {RangePointToAnchor(<<1>>, <<1, 1>>), RangePoseToAnchor(<<1, 1>>, <<0, 1>>, <<1, 1>>),
     GlobalPosition(<<2, 2>>)}

\* the model is one for states of the class (the type of x in its methods)
Fits(model, cls) ==
    IF model.cls = "RangePointToAnchor" THEN cls = "VectorState" ELSE cls \in LieClasses

MeasuredLists ==
    UNION {{q \in [1..n -> SubStates] : \A i, j \in 1..n : q[i] = q[j] => i = j} :
              n \in 1..(MaxSub + 1)}

InitMeasure ==
    /\ last = Call("init", 0, NoArgs, RetNone, <<>>)
    /\ nops = 0
    /\ rt = NoRT
    /\ roots = [x |-> 1, y |-> 0]
    /\ \E kinds \in MeasuredLists :
          /\ heap = CompositeHeap(kinds, [i \in DOMAIN kinds |-> kinds[i].state_id])
          /\ buf = CompositeBuf(kinds)
          /\ \E model \in MeasurementModels : \E state_id \in IdInputs :
                /\ \A i \in DOMAIN kinds :
                      (kinds[i].state_id = state_id
                       /\ \A j \in 1..(i - 1) : kinds[j].state_id # state_id)
                          => Fits(model, kinds[i].cls)
                /\ models = <<CompositeMeasurementModel(model, state_id)>>

MeasureCall(op, k, o, r) ==
    Pure(Call(op, o, [NoArgs EXCEPT !.model = models[k]],
              IF r.ok THEN r.val ELSE RetRaise(r.exc), <<>>))

CallCompositeMeasurementEvaluate ==
    \E k \in DOMAIN models :
        /\ models[k].cls = "CompositeMeasurementModel"
        /\ IsComposite(roots.x)
        /\ MeasureCall("evaluate", k, roots.x,
                       CompositeMeasurementModel_evaluate(models[k], heap, buf, roots.x))

CallCompositeMeasurementJacobian ==
    \E k \in DOMAIN models :
        /\ models[k].cls = "CompositeMeasurementModel"
        /\ IsComposite(roots.x)
        /\ MeasureCall("jacobian", k, roots.x,
                       CompositeMeasurementModel_jacobian(models[k], heap, buf, roots.x))

CallCompositeMeasurementCovariance ==
    \E k \in DOMAIN models :
        /\ models[k].cls = "CompositeMeasurementModel"
        /\ IsComposite(roots.x)
        /\ MeasureCall("covariance", k, roots.x,
                       CompositeMeasurementModel_covariance(models[k], heap, buf, roots.x))

NextMeasure ==
    \/ CallCompositeMeasurementEvaluate
    \/ CallCompositeMeasurementJacobian
    \/ CallCompositeMeasurementCovariance
    \/ CallSetAttitude
    \/ CallSetPosition

SpecMeasure == InitMeasure /\ [][NextMeasure]_vars

(***************************************************************************)
(* CompositeState.jacobian_from_blocks.  block_dict is a dict: a sequence  *)
(* of items [id, block] with different ids, in insertion order.            *)
(***************************************************************************)
\* block_dict.values()[k]: dict.values() is a view, and a view cannot be
\* subscripted
ValuesAt(block_dict, k) == Raise("TypeError")

\* for state_id, block in block_dict.items(): slc = self.get_slice_by_id(state_id);
\* jac[:, slc] = block
RECURSIVE ScatterLoop(_, _, _, _, _)
ScatterLoop(h, o, block_dict, k, jac) ==
    IF k > Len(block_dict) THEN Ok(jac)
    ELSE LET slc == get_slice_by_id(h, o, block_dict[k].id)
             set == SetColumns(jac, slc.val, block_dict[k].block)
         IN  IF ~slc.ok THEN slc
             ELSE IF ~set.ok THEN set
             ELSE ScatterLoop(h, o, block_dict, k + 1, set.val)

CompositeState_jacobian_from_blocks(h, o, block_dict) ==
    LET first == ValuesAt(block_dict, 0)
        m == first.val.shape[1]
    IN  IF ~first.ok THEN first
        ELSE ScatterLoop(h, o, block_dict, 1, zeros(m, Dof(h, o)))

(***************************************************************************)
(* SpecBlocks: a composite x; Jacobians are assembled from blocks, by the  *)
(* composite and by the Lie state classes.                                 *)
(***************************************************************************)
\* row counts of the blocks a caller passes
RowInputs == {1, 2}

\* the block a caller passes under a name, m rows and w columns
BlockInput(name, m, w) == RetMatrix(m, w, [fn |-> name, at |-> <<>>])

\* the dicts a caller passes: up to two identifiers, each with a block of m rows
\* as wide as the sub-state the identifier addresses (one column when the
\* composite has no such sub-state)
BlockDicts(o) ==
    LET width(id) == IF get_state_by_id(heap, o, id).ok
                     THEN heap[get_state_by_id(heap, o, id).val].dof
                     ELSE 1
        item(id, m) == [id |-> id, block |-> BlockInput(id, m, width(id))]
    IN  {<<>>}
        \cup {<<item(id, m)>> : id \in IdInputs, m \in RowInputs}
        \cup {<<item(p[1], m), item(p[2], m)>> :
                 p \in {q \in IdInputs \X IdInputs : q[1] # q[2]}, m \in RowInputs}

\* the width of the class's block of the name
BlockDim(cls, name) ==
    IF cls = "SO2State" THEN 1
    ELSE IF cls = "SE2State" THEN (IF name = "attitude" THEN 1 ELSE 2)
    ELSE 3

\* the blocks the class names
NamedBlocks(cls) ==
    IF cls \in {"SO2State", "SO3State"} THEN {"attitude"}
    ELSE IF cls \in {"SE2State", "SE3State"} THEN {"attitude", "position"}
    ELSE AllBlocks

BlocksArgs == [cls |-> "None", blocks |-> NoBlocks, block_dict |-> <<>>]

\* x.jacobian_from_blocks(block_dict) on the composite
CallCompositeJacobianFromBlocks ==
    \E o \in Roots : \E block_dict \in BlockDicts(o) :
        /\ IsComposite(o)
        /\ LET r == CompositeState_jacobian_from_blocks(heap, o, block_dict)
           IN  Pure(Call("jacobian_from_blocks", o,
                         [BlocksArgs EXCEPT !.cls = "CompositeState",
                                            !.block_dict = block_dict],
                         IF r.ok THEN r.val ELSE RetRaise(r.exc), <<>>))

\* cls.jacobian_from_blocks(**blocks) of a Lie state class, with any subset of
\* the blocks it names
CallJacobianFromBlocks ==
    \E cls \in BlockClasses : \E given \in SUBSET AllBlocks : \E m \in RowInputs :
        /\ given \subseteq NamedBlocks(cls)
        /\ LET blocks == [n \in AllBlocks |->
                             IF n \in given THEN BlockInput(n, m, BlockDim(cls, n))
                             ELSE RetNone]
               r == jacobian_from_blocks(cls, blocks)
           IN  Pure(Call("jacobian_from_blocks", 0,
                         [BlocksArgs EXCEPT !.cls = cls, !.blocks = blocks],
                         IF r.ok THEN r.val ELSE RetRaise(r.exc), <<>>))

InitBlocks ==
    /\ InitCommon
    /\ roots = [x |-> 1, y |-> 0]
    /\ \E kinds \in StateLists :
          /\ heap = CompositeHeap(kinds, [i \in DOMAIN kinds |-> kinds[i].state_id])
          /\ buf = CompositeBuf(kinds)

NextBlocks ==
    \/ CallCompositeJacobianFromBlocks
    \/ CallJacobianFromBlocks

SpecBlocks == InitBlocks /\ [][NextBlocks]_vars

(***************************************************************************)
(* Process model objects.  A noise matrix Q is a matrix named "Q"; a model *)
(* object is a record of its class and the attributes __init__ assigns.    *)
(***************************************************************************)
NoiseMatrix(name, rows, cols) == RetMatrix(rows, cols, [fn |-> name, at |-> <<>>])

\* SingleIntegrator.__init__(Q): refuses a Q that is not n x n
SingleIntegrator(Q) ==
    IF Q.shape[1] # Q.shape[2] THEN Raise("ValueError")
    ELSE Ok([cls |-> "SingleIntegrator", Q |-> Q, dim |-> Q.shape[1]])

\* BodyFrameVelocity.__init__(Q): self._Q = Q
BodyFrameVelocity(Q) == Ok([cls |-> "BodyFrameVelocity", Q |-> Q])

\* RelativeBodyFrameVelocity.__init__(Q1, Q2): self._Q1 = Q1; self._Q2 = Q2
RelativeBodyFrameVelocity(Q1, Q2) ==
    Ok([cls |-> "RelativeBodyFrameVelocity", Q1 |-> Q1, Q2 |-> Q2])

\* CompositeProcessModel.__init__(model_list)
CompositeProcessModel(model_list) ==
    [cls |-> "CompositeProcessModel", model_list |-> model_list]

\* SingleIntegrator.jacobian: np.identity(self.dim)
SingleIntegrator_jacobian(model, h, b, o, u, dt) ==
    Ok(RetMatrix(model.dim, model.dim, [fn |-> "identity", at |-> <<>>]))

\* SingleIntegrator.covariance: dt**2 * self._Q
SingleIntegrator_covariance(model, h, b, o, u, dt) ==
    Ok(RetMatrix(model.Q.shape[1], model.Q.shape[2], [fn |-> "dt2Q", at |-> <<dt>>]))

\* model.jacobian(x, u, dt) by the model's class
ProcessModel_jacobian(model, h, b, o, u, dt) ==
    IF model.cls = "SingleIntegrator" THEN SingleIntegrator_jacobian(model, h, b, o, u, dt)
    ELSE IF model.cls = "BodyFrameVelocity" THEN BodyFrameVelocity_jacobian(h, b, o, u, dt)
    ELSE RelativeBodyFrameVelocity_jacobian(h, b, o, u, dt)

\* model.covariance(x, u, dt) by the model's class
ProcessModel_covariance(model, h, b, o, u, dt) ==
    IF model.cls = "SingleIntegrator" THEN SingleIntegrator_covariance(model, h, b, o, u, dt)
    ELSE IF model.cls = "BodyFrameVelocity" THEN BodyFrameVelocity_covariance(h, b, o, u, dt)
    ELSE RelativeBodyFrameVelocity_covariance(h, b, o, u, dt)

\* scipy.linalg.block_diag(*ms): the matrices down the diagonal, zeros
\* elsewhere; with no matrix at all, the 1 x 0 array of atleast_2d([])
block_diag(ms) ==
    LET shape(k) == IF ms = <<>> THEN <<1, 0>> ELSE ms[k].shape
        n == IF ms = <<>> THEN 1 ELSE Len(ms)
        top(k) == SumSeq([l \in 1..(k - 1) |-> shape(l)[1]])
        left(k) == SumSeq([l \in 1..(k - 1) |-> shape(l)[2]])
        at(i) == CHOOSE k \in 1..n : top(k) < i /\ i <= top(k) + shape(k)[1]
    IN  Matrix([i \in 1..top(n + 1) |->
                   [j \in 1..left(n + 1) |->
                       IF left(at(i)) < j /\ j <= left(at(i)) + shape(at(i))[2]
                       THEN Cells(ms[at(i)])[i - top(at(i))][j - left(at(i))]
                       ELSE ZeroCell]], left(n + 1))

\* the loop of CompositeProcessModel.jacobian / covariance from position i on:
\* jac.append(self._model_list[i].jacobian(x_sub, StampedValue(u.value[i]), dt))
RECURSIVE ProcessLoop(_, _, _, _, _, _, _, _, _)
ProcessLoop(which, model_list, h, b, o, u, dt, i, jac) ==
    IF i > Len(h[o].subs) THEN Ok(jac)
    ELSE IF i > Len(u) \/ i > Len(model_list) THEN Raise("IndexError")
    ELSE LET r == IF which = "jacobian"
                  THEN ProcessModel_jacobian(model_list[i], h, b, h[o].subs[i], u[i], dt)
                  ELSE ProcessModel_covariance(model_list[i], h, b, h[o].subs[i], u[i], dt)
         IN  IF ~r.ok THEN r
             ELSE ProcessLoop(which, model_list, h, b, o, u, dt, i + 1, Append(jac, r.val))

\* a slip in jacobian: the blocks laid down from the last sub-state to the first
JacobianInReverseOrder(model, h, b, o, u, dt) ==
    LET jac == ProcessLoop("jacobian", model.model_list, h, b, o, u, dt, 1, <<>>)
    IN  IF jac.ok
        THEN Ok(block_diag([i \in DOMAIN jac.val |-> jac.val[Len(jac.val) + 1 - i]]))
        ELSE jac

\* CompositeProcessModel.jacobian(x, u, dt): block_diag(*jac)
CompositeProcessModel_jacobian(model, h, b, o, u, dt) ==
    LET jac == ProcessLoop("jacobian", model.model_list, h, b, o, u, dt, 1, <<>>)
    IN  IF jac.ok THEN Ok(block_diag(jac.val)) ELSE jac

\* CompositeProcessModel.covariance(x, u, dt): block_diag(*cov)
CompositeProcessModel_covariance(model, h, b, o, u, dt) ==
    LET cov == ProcessLoop("covariance", model.model_list, h, b, o, u, dt, 1, <<>>)
    IN  IF cov.ok THEN Ok(block_diag(cov.val)) ELSE cov

(***************************************************************************)
(* SpecProcess: a composite x and a CompositeProcessModel whose i-th model *)
(* is one for the i-th sub-state; the model list may stop short of the     *)
(* sub-state list.                                                         *)
(***************************************************************************)
\* the model objects a caller builds for a sub-state of the kind
FittedModels(kind) ==
    LET n == IF kind.cls = "VectorState" THEN Len(kind.value)
             ELSE IF kind.cls = "SO2State" THEN 1 ELSE 3
    IN  IF kind.cls = "VectorState" THEN {SingleIntegrator(NoiseMatrix("Q", n, n)).val}
        ELSE {BodyFrameVelocity(NoiseMatrix("Q", n, n)).val,
              RelativeBodyFrameVelocity(NoiseMatrix("Q1", n, n), NoiseMatrix("Q2", n, n)).val}

\* the inputs a caller passes: one tangent vector per sub-state (two in a row
\* for RelativeBodyFrameVelocity), all zeros or all ones
ProcessInputs(o, model_list) ==
    {[i \in DOMAIN heap[o].subs |->
         LET n == heap[heap[o].subs[i]].dof
         IN  IF i \in DOMAIN model_list /\ model_list[i].cls = "RelativeBodyFrameVelocity"
             THEN Ones(n) \o [j \in 1..n |-> c] ELSE [j \in 1..n |-> c]] : c \in {0, 1}}

InitProcess ==
    /\ last = Call("init", 0, NoArgs, RetNone, <<>>)
    /\ nops = 0
    /\ rt = NoRT
    /\ roots = [x |-> 1, y |-> 0]
    /\ \E kinds \in StateLists :
          /\ heap = CompositeHeap(kinds, [i \in DOMAIN kinds |-> kinds[i].state_id])
          /\ buf = CompositeBuf(kinds)
          /\ \E n \in 0..Len(kinds) :
              \E model_list \in [1..n -> UNION {FittedModels(k) : k \in SubStates}] :
                /\ \A i \in 1..n : model_list[i] \in FittedModels(kinds[i])
                /\ models = <<CompositeProcessModel(model_list)>>

\* the models of the class among the caller's
ModelsOf(cls) == {k \in DOMAIN models : models[k].cls = cls}

ProcessArgs(k, u, dt) == [NoArgs EXCEPT !.u = u, !.dt = dt, !.model = models[k]]

\* models[k].evaluate(x, u, dt)
CallCompositeProcessEvaluate ==
    \E k \in ModelsOf("CompositeProcessModel") : \E dt \in DtInputs :
      \E u \in ProcessInputs(roots.x, models[k].model_list) :
        /\ models[k].cls = "CompositeProcessModel"
        /\ nops < MaxOps
        /\ LET names == [i \in DOMAIN models[k].model_list |-> models[k].model_list[i].cls]
               r == CompositeProcessModel_evaluate(names, heap, buf, roots.x, u, dt)
           IN  /\ Mutated(r, Call("evaluate", roots.x, ProcessArgs(k, u, dt), r.ret, <<>>),
                          NoRT)

\* models[k].jacobian(x, u, dt)
CallCompositeProcessJacobian ==
    \E k \in ModelsOf("CompositeProcessModel") : \E dt \in DtInputs :
      \E u \in ProcessInputs(roots.x, models[k].model_list) :
        /\ models[k].cls = "CompositeProcessModel"
        /\ LET r == CompositeProcessModel_jacobian(models[k], heap, buf, roots.x, u, dt)
           IN  Pure(Call("jacobian", roots.x, ProcessArgs(k, u, dt), AsRet(r, r.val), <<>>))

\* models[k].covariance(x, u, dt)
CallCompositeProcessCovariance ==
    \E k \in ModelsOf("CompositeProcessModel") : \E dt \in DtInputs :
      \E u \in ProcessInputs(roots.x, models[k].model_list) :
        /\ models[k].cls = "CompositeProcessModel"
        /\ LET r == CompositeProcessModel_covariance(models[k], heap, buf, roots.x, u, dt)
           IN  Pure(Call("covariance", roots.x, ProcessArgs(k, u, dt), AsRet(r, r.val), <<>>))

NextProcess ==
    \/ CallCompositeProcessEvaluate
    \/ CallCompositeProcessJacobian
    \/ CallCompositeProcessCovariance

SpecProcess == InitProcess /\ [][NextProcess]_vars

(***************************************************************************)
(* SpecConstruct: a caller constructs process models from noise matrices   *)
(* of any shape; the model objects that come to exist are kept in models.  *)
(***************************************************************************)
MaxModels == 2
MaxDim == 2

\* the noise matrices a caller passes under the name
NoiseInputs(name) == {NoiseMatrix(name, r, c) : r, c \in 1..MaxDim}

ConstructArgs(cls, noise) == [cls |-> cls, noise |-> noise]

\* model = cls(*noise): the object exists when __init__ returns
Constructed(cls, noise, r) ==
    /\ models' = IF r.ok THEN Append(models, r.val) ELSE models
    /\ last' = Call("__init__", 0, ConstructArgs(cls, noise),
                    IF r.ok THEN RetNone ELSE RetRaise(r.exc), <<>>)
    /\ UNCHANGED <<heap, buf, roots, nops, rt>>

ConstructSingleIntegrator ==
    \E Q \in NoiseInputs("Q") :
        /\ Len(models) < MaxModels
        /\ Constructed("SingleIntegrator", <<Q>>, SingleIntegrator(Q))

ConstructBodyFrameVelocity ==
    \E Q \in NoiseInputs("Q") :
        /\ Len(models) < MaxModels
        /\ Constructed("BodyFrameVelocity", <<Q>>, BodyFrameVelocity(Q))

ConstructRelativeBodyFrameVelocity ==
    \E Q1 \in NoiseInputs("Q1") : \E Q2 \in NoiseInputs("Q2") :
        /\ Len(models) < MaxModels
        /\ Constructed("RelativeBodyFrameVelocity", <<Q1, Q2>>,
                       RelativeBodyFrameVelocity(Q1, Q2))

InitConstruct ==
    /\ last = Call("init", 0, ConstructArgs("None", <<>>), RetNone, <<>>)
    /\ nops = 0
    /\ rt = NoRT
    /\ models = <<>>
    /\ roots = [x |-> 0, y |-> 0]
    /\ heap = EmptyHeap
    /\ buf = EmptyBuf

NextConstruct ==
    \/ ConstructSingleIntegrator
    \/ ConstructBodyFrameVelocity
    \/ ConstructRelativeBodyFrameVelocity

SpecConstruct == InitConstruct /\ [][NextConstruct]_vars

(***************************************************************************)
(* RangePoseToPose: the range between the tags of two poses of a composite. *)
(***************************************************************************)
RangePoseToPose(tag_body_position1, tag_body_position2, state_id1, state_id2, R) ==
    [cls |-> "RangePoseToPose", tag1 |-> tag_body_position1, tag2 |-> tag_body_position2,
     id1 |-> state_id1, id2 |-> state_id2, R |-> R]

\* x.position, x.attitude of a sub-state: a VectorState has no such attribute,
\* an SO2State has no position
PoseOf(h, b, o) ==
    IF h[o].cls = "VectorState" THEN Raise("AttributeError")
    ELSE IF h[o].cls = "SO2State" THEN Raise("NotImplementedError")
    ELSE Ok(b[h[o].value])

\* the two poses the model reads, in the order it reads them
PosesOf(model, h, b, o) ==
    LET x1 == get_state_by_id(h, o, model.id1)
        x2 == get_state_by_id(h, o, model.id2)
        p1 == PoseOf(h, b, x1.val)
        p2 == PoseOf(h, b, x2.val)
    IN  IF ~x1.ok THEN x1
        ELSE IF ~x2.ok THEN x2
        ELSE IF ~p1.ok THEN p1
        ELSE IF ~p2.ok THEN p2
        ELSE Ok(<<p1.val, p2.val>>)

\* RangePoseToPose.evaluate(x): the norm of the vector between the tags
RangePoseToPose_evaluate(model, h, b, o) ==
    LET poses == PosesOf(model, h, b, o)
    IN  IF ~poses.ok THEN poses ELSE Ok(RetValue("RangePoseToPose.evaluate", poses.val))

\* RangePoseToPose.jacobian(x): the blocks of each pose through its
\* jacobian_from_blocks, written into the slices of the two identifiers
RangePoseToPose_jacobian(model, h, b, o) ==
    LET poses == PosesOf(model, h, b, o)
        x1 == get_state_by_id(h, o, model.id1).val
        x2 == get_state_by_id(h, o, model.id2).val
        blocks(k) == [NoBlocks EXCEPT
                         !.attitude = RetMatrix(1, 1, [fn |-> "rho.T C odot(r)",
                                                       at |-> <<k>> \o Concat(poses.val)]),
                         !.position = RetMatrix(1, 2, [fn |-> "rho.T C",
                                                       at |-> <<k>> \o Concat(poses.val)])]
        jac1 == jacobian_from_blocks(h[x1].cls, blocks(1))
        jac2 == jacobian_from_blocks(h[x2].cls, blocks(2))
        slc1 == get_slice_by_id(h, o, model.id1)
        slc2 == get_slice_by_id(h, o, model.id2)
        set1 == SetColumns(zeros(1, Dof(h, o)), slc1.val, jac1.val)
    IN  IF ~poses.ok THEN poses
        ELSE IF ~jac1.ok THEN jac1
        ELSE IF ~jac2.ok THEN jac2
        ELSE IF ~set1.ok THEN set1
        ELSE SetColumns(set1.val, slc2.val, jac2.val)

\* RangePoseToPose.covariance(x): self._R
RangePoseToPose_covariance(model, h, b, o) == Ok(RetValue("R", model.R))

(***************************************************************************)
(* SpecPurity: a composite x, a CompositeProcessModel fitted to it, a      *)
(* CompositeMeasurementModel and a RangePoseToPose; every operation of the *)
(* models is called, and plus.                                             *)
(***************************************************************************)
\* the sub-states of SubStates and a second pose, perturbed on the left
PurityStates ==
    SubStates \cup {[cls |-> "SE2State", direction |-> "left", value |-> <<0, 0, 0>>,
                     stamp |-> "None", state_id |-> "c"]}

PurityLists ==
    UNION {{q \in [1..n -> PurityStates] : \A i, j \in 1..n : q[i] = q[j] => i = j} :
              n \in 1..MaxSub}

\* the identifiers the RangePoseToPose models of a caller name
PoseIdInputs == {<<"a", "c">>, <<"a", "a">>}

InitPurity ==
    /\ last = Call("init", 0, NoArgs, RetNone, <<>>)
    /\ nops = 0
    /\ rt = NoRT
    /\ roots = [x |-> 1, y |-> 0]
    /\ \E kinds \in PurityLists :
          /\ heap = CompositeHeap(kinds, [i \in DOMAIN kinds |-> kinds[i].state_id])
          /\ buf = CompositeBuf(kinds)
          /\ \E model_list \in [DOMAIN kinds -> UNION {FittedModels(k) : k \in PurityStates}] :
              \E model \in MeasurementModels : \E ids \in PoseIdInputs :
                /\ \A i \in DOMAIN kinds : model_list[i] \in FittedModels(kinds[i])
                /\ \A i \in DOMAIN kinds :
                      (kinds[i].state_id = "a" /\ \A j \in 1..(i - 1) : kinds[j].state_id # "a")
                          => Fits(model, kinds[i].cls)
                /\ models = <<CompositeProcessModel(model_list),
                              CompositeMeasurementModel(model, "a"),
                              RangePoseToPose(<<0, 1>>, <<1, 0>>, ids[1], ids[2], <<1, 1>>)>>

CallRangePoseToPoseEvaluate ==
    \E k \in DOMAIN models :
        /\ models[k].cls = "RangePoseToPose"
        /\ MeasureCall("evaluate", k, roots.x,
                       RangePoseToPose_evaluate(models[k], heap, buf, roots.x))

CallRangePoseToPoseJacobian ==
    \E k \in DOMAIN models :
        /\ models[k].cls = "RangePoseToPose"
        /\ MeasureCall("jacobian", k, roots.x,
                       RangePoseToPose_jacobian(models[k], heap, buf, roots.x))

CallRangePoseToPoseCovariance ==
    \E k \in DOMAIN models :
        /\ models[k].cls = "RangePoseToPose"
        /\ MeasureCall("covariance", k, roots.x,
                       RangePoseToPose_covariance(models[k], heap, buf, roots.x))

NextPurity ==
    \/ CallCompositeProcessEvaluate
    \/ CallCompositeProcessJacobian
    \/ CallCompositeProcessCovariance
    \/ CallCompositeMeasurementEvaluate
    \/ CallCompositeMeasurementJacobian
    \/ CallCompositeMeasurementCovariance
    \/ CallRangePoseToPoseEvaluate
    \/ CallRangePoseToPoseJacobian
    \/ CallRangePoseToPoseCovariance
    \/ CallCompositePlus

SpecPurity == InitPurity /\ [][NextPurity]_vars

(***************************************************************************)
(* SpecPartial: two composites x and y, y built like the first sub-states  *)
(* of x, and a CompositeProcessModel for the first sub-states of x; plus   *)
(* with a dx of any length up to dof + 1, minus either way, evaluate.      *)
(***************************************************************************)
\* x = CompositeState(kx), y = CompositeState(ky): x is object 1 with its
\* sub-states behind it, then y with its own
PairHeap(kx, ky) ==
    LET yo == Len(kx) + 2
        h1 == [o \in ObjIds |->
                  IF o - 1 \in DOMAIN kx
                  THEN Construct(kx[o - 1], o - 1, kx[o - 1].value, kx[o - 1].stamp,
                                 kx[o - 1].state_id)
                  ELSE IF o - yo \in DOMAIN ky
                  THEN Construct(ky[o - yo], o - 2, ky[o - yo].value, ky[o - yo].stamp,
                                 ky[o - yo].state_id)
                  ELSE FreeObj]
    IN  [h1 EXCEPT ![1] = CompositeState(h1, [i \in DOMAIN kx |-> i + 1], "None", "None"),
                   ![yo] = CompositeState(h1, [i \in DOMAIN ky |-> yo + i], "None", "None")]

PairBuf(kx, ky) ==
    [n \in BufIds |->
        IF n \in DOMAIN kx THEN kx[n].value
        ELSE IF n - Len(kx) \in DOMAIN ky THEN ky[n - Len(kx)].value
        ELSE <<>>]

InitPartial ==
    /\ last = Call("init", 0, NoArgs, RetNone, <<>>)
    /\ nops = 0
    /\ rt = NoRT
    /\ \E kx \in StateLists : \E ny \in 0..Len(kx) : \E nm \in 0..Len(kx) :
          /\ heap = PairHeap(kx, SubSeq(kx, 1, ny))
          /\ buf = PairBuf(kx, SubSeq(kx, 1, ny))
          /\ roots = [x |-> 1, y |-> Len(kx) + 2]
          /\ \E model_list \in [1..nm -> UNION {FittedModels(k) : k \in SubStates}] :
                /\ \A i \in 1..nm : model_list[i] \in FittedModels(kx[i])
                /\ models = <<CompositeProcessModel(model_list)>>

\* o.plus(dx) with a dx of ones of any length from 0 to dof + 1
CallCompositePlusOfLength ==
    \E o \in Roots : \E n \in 0..(Dof(heap, o) + 1) :
        /\ IsComposite(o)
        /\ nops < MaxOps
        /\ LET r == CompositeState_plus(heap, buf, o, Ones(n), "None")
           IN  Mutated(r, Call("plus", o, [NoArgs EXCEPT !.dx = Ones(n)], r.ret, r.calls),
                       NoRT)

NextPartial ==
    \/ CallCompositePlusOfLength
    \/ CallMinus
    \/ CallCompositeProcessEvaluate

SpecPartial == InitPartial /\ [][NextPartial]_vars

(***************************************************************************)
(* Properties.                                                             *)
(***************************************************************************)
SubDofs(o) == [i \in DOMAIN heap[o].subs |-> heap[heap[o].subs[i]].dof]

\* the slices of composite o partition [0, dof) in list order
SlicesPartition(o) ==
    LET n == Len(heap[o].subs)
        sl == heap[o].slices
        dofs == SubDofs(o)
    IN  /\ Len(sl) = n
        /\ \A i \in 1..n :
              /\ sl[i].start = SumSeq(PySlice(dofs, 0, i - 1))
              /\ sl[i].stop = sl[i].start + dofs[i]
        /\ \A p \in 0..(Dof(heap, o) - 1) :
              Cardinality({i \in 1..n : sl[i].start <= p /\ p < sl[i].stop}) = 1
        /\ \A i \in 1..n : \A p \in sl[i].start..(sl[i].stop - 1) : p < Dof(heap, o)
        /\ \A i \in 1..(n - 1) : sl[i].stop = sl[i + 1].start

\* C1: in every reachable state, every composite state (x, and the copy y) has
\* one slice per sub-state, slice i is [sum(dof_1..dof_{i-1}), + dof_i), and the
\* slices in list order cover [0, dof) with no gap and no overlap.
C1_SlicePartition == \A o \in Roots : IsComposite(o) => SlicesPartition(o)

\* a copied composite of two sub-states of different dof, after a plus on it
C1_Witness ==
    /\ roots.y # 0
    /\ IsComposite(roots.y)
    /\ Len(heap[roots.y].subs) = 2
    /\ SubDofs(roots.y)[1] # SubDofs(roots.y)[2]
    /\ last.op = "plus"
    /\ last.target = roots.y
    /\ last.ret = RetNone

Lookups == {"get_index_by_id", "get_slice_by_id", "get_state_by_id"}

\* the positions of composite o whose sub-state carries state_id
Matches(o, state_id) ==
    {i \in DOMAIN heap[o].subs : heap[heap[o].subs[i]].state_id = state_id}

\* what the last lookup returned is right: with no match a ValueError; else the
\* 0-based position i such that sub-state i matches and none before it does,
\* resp. the slice and the sub-state object at that position
LookupAnswer ==
    last.op \in Lookups =>
        LET o == last.target
            m == Matches(o, last.args.id)
        IN  IF m = {} THEN last.ret = RetRaise("ValueError")
            ELSE \E i \in m :
                    /\ \A j \in 1..(i - 1) : j \notin m
                    /\ last.op = "get_index_by_id" => last.ret = RetInt(i - 1)
                    /\ last.op = "get_slice_by_id" => last.ret = RetSlice(heap[o].slices[i])
                    /\ last.op = "get_state_by_id" => last.ret = RetRef(heap[o].subs[i])

\* C2: get_index_by_id, get_slice_by_id and get_state_by_id answer with the
\* position, slice and object of the first sub-state carrying the identifier,
\* fail with an error when none carries it, and change no state.
C2_IdentifierAddressing ==
    /\ []LookupAnswer
    /\ [][last'.op \in Lookups => UNCHANGED <<heap, buf, roots>>]_vars

\* a lookup of an identifier two sub-states carry, answered with the first
C2_Witness ==
    /\ last.op = "get_state_by_id"
    /\ Cardinality(Matches(last.target, last.args.id)) = 2
    /\ last.ret = RetRef(heap[last.target].subs[1])

\* the value sub-state p holds after its own plus(dx)
ValueAfterPlus(p, dx) ==
    IF heap[p].cls = "VectorState" THEN VectorState_plus(buf[heap[p].value], dx)
    ELSE MatrixLieGroupState_plus(ClsGroup(heap[p].cls), heap[p].direction,
                                  buf[heap[p].value], dx)

\* the step is a composite plus with a dx as long as the composite's dof
FullCompositePlus ==
    /\ last'.op = "plus"
    /\ IsComposite(last'.target)
    /\ Len(last'.args.dx) = Dof(heap, last'.target)

\* what such a step does: one sub-state plus per position, in list order, with
\* the chunk of dx under that position's slice; the stamps as new_stamp says
ChunksAndStamps ==
    LET o == last'.target
        dx == last'.args.dx
        subs == heap[o].subs
        chunk == [i \in DOMAIN subs |->
                     PySlice(dx, heap[o].slices[i].start, heap[o].slices[i].stop)]
    IN  /\ last'.ret = RetNone
        /\ last'.calls = [i \in DOMAIN subs |-> [obj |-> subs[i], dx |-> chunk[i]]]
        /\ Concat(chunk) = dx
        /\ heap'[o].subs = subs
        /\ \A i \in DOMAIN subs :
              /\ ValueAfterPlus(subs[i], chunk[i]).ok
              /\ buf'[heap'[subs[i]].value] = ValueAfterPlus(subs[i], chunk[i]).val
              /\ heap'[subs[i]].stamp = IF last'.args.stamp # "None" THEN last'.args.stamp
                                        ELSE heap[subs[i]].stamp

\* C3: CompositeState.plus(dx, new_stamp) with len(dx) = dof calls plus on
\* sub-state i with exactly dx[slice_i], for every i in list order and on nothing
\* else; then every sub-state's stamp is new_stamp if one was given, and no stamp
\* has changed if none was.
C3_PlusChunksAndStamps == [][FullCompositePlus => ChunksAndStamps]_vars

\* a plus with a new stamp on a composite of two sub-states of different dof
\* that had different stamps
C3_Witness ==
    /\ last.op = "plus"
    /\ IsComposite(last.target)
    /\ Len(last.calls) = 2
    /\ Len(last.calls[1].dx) # Len(last.calls[2].dx)
    /\ last.args.dx = Ones(Dof(heap, last.target))
    /\ last.args.stamp = "t1"
    /\ \A i \in 1..2 : heap[heap[last.target].subs[i]].stamp = "t1"
    /\ last.ret = RetNone

\* C4: plus (VectorState, MatrixLieGroupState, CompositeState) and evaluate
\* (SingleIntegrator, BodyFrameVelocity, RelativeBodyFrameVelocity,
\* CompositeProcessModel) mutate the state they are called on and return that
\* same state object.
C4_PlusAndEvaluateReturnTheState ==
    (last.op \in {"plus", "evaluate"} /\ last.ret.tag # "raise")
        => last.ret = RetRef(last.target)

\* the array is a vector (n,), a row (1, n) or a column (n, 1) holding v
IsVector(a, v) ==
    /\ a.data = v
    /\ \/ Len(a.shape) = 1
       \/ Len(a.shape) = 2 /\ (a.shape[1] = 1 \/ a.shape[2] = 1)

\* the last call is y.minus(x) where y was x.plus(dx)'s result for a composite
\* of at least two sub-states of different dof
RoundTripDone ==
    /\ last.op = "minus"
    /\ rt.obj # 0
    /\ last.target = rt.obj
    /\ last.args.other = rt.base
    /\ IsComposite(rt.obj)
    /\ \E i, j \in DOMAIN heap[rt.obj].subs : SubDofs(rt.obj)[i] # SubDofs(rt.obj)[j]

\* C5: for a composite of heterogeneous sub-states (differing dof) and a tangent
\* vector dx of length sum(dof), the minus of the composite after plus(dx) and
\* the composite before it is dx.
C5_CompositeRoundTrip ==
    RoundTripDone => (last.ret.tag = "array" /\ IsVector(last.ret, rt.dx))

\* the last call was t.plus(o.minus(p)) with t = p, and it went through
PlusOfMinusOnArg ==
    /\ last.op = "plus"
    /\ last.args.way = "arg"

\* C6: minus is a left inverse of plus: for VectorState and for Lie states of
\* either direction, and states a, b of the same variant and direction,
\* b.plus(a.minus(b)) leaves b's value equal to a's value.
C6_MinusLeftInverseOfPlus ==
    PlusOfMinusOnArg =>
        /\ last.ret = RetNone
        /\ LeafEqual(heap, buf, last.target, last.args.other)

\* b.plus(a.minus(b)) done on two different poses perturbed on the left, with a
\* non-zero a.minus(b)
C6_Witness ==
    /\ PlusOfMinusOnArg
    /\ last.target # last.args.other
    /\ heap[last.target].cls = "SE2State"
    /\ heap[last.target].direction = "left"
    /\ last.args.dx # Zeros(3)
    /\ last.ret = RetNone

\* x.minus(x) is the zero tangent vector
MinusOfItselfIsZero ==
    (last.op = "minus" /\ last.target = last.args.other)
        => /\ last.ret.tag = "array"
           /\ last.ret.data = Zeros(heap[last.target].dof)

\* C7 as stated: x.plus(x.minus(y)) leaves x's value equal to y's value, and
\* x.minus(x) is zero.
C7_PlusOfMinusOnSelf ==
    /\ (last.op = "plus" /\ last.args.way = "self")
          => LeafEqual(heap, buf, last.target, last.args.other)
    /\ MinusOfItselfIsZero

\* C7, amended: plus(y, minus(x, y)) equals x, that is y.plus(x.minus(y)) leaves
\* y's value equal to x's value, for every variant and every pair x, y of it; and
\* minus(x, x) is the zero tangent vector.
C7_PlusOfMinusOnArg ==
    /\ PlusOfMinusOnArg => LeafEqual(heap, buf, last.target, last.args.other)
    /\ MinusOfItselfIsZero

\* y.plus(x.minus(y)) done on two vectors with x.minus(y) having a negative entry
C7_Witness ==
    /\ PlusOfMinusOnArg
    /\ heap[last.target].cls = "VectorState"
    /\ \E i \in DOMAIN last.args.dx : last.args.dx[i] < 0
    /\ buf[heap[last.target].value] = buf[heap[last.args.other].value]

\* what a caller can observe of a state: class, stamp, state_id, direction and
\* value, and the same of each sub-state
LeafSnapshot(h, b, o) ==
    [cls |-> h[o].cls, stamp |-> h[o].stamp, state_id |-> h[o].state_id,
     direction |-> h[o].direction, value |-> b[h[o].value]]

Snapshot(h, b, o) ==
    IF h[o].cls = "CompositeState"
    THEN [cls |-> h[o].cls, stamp |-> h[o].stamp, state_id |-> h[o].state_id,
          subs |-> [i \in DOMAIN h[o].subs |-> LeafSnapshot(h, b, h[o].subs[i])]]
    ELSE LeafSnapshot(h, b, o)

\* right after c = s.copy(), c is another object that looks like s
CopyLooksTheSame ==
    last.op = "copy" =>
        /\ last.ret = RetRef(roots.y)
        /\ roots.y # roots.x
        /\ Snapshot(heap, buf, roots.y) = Snapshot(heap, buf, roots.x)

\* a call on one of s, c or on a sub-state of it leaves the other as it was
OtherUntouched ==
    \A r \in Roots : \A r2 \in Roots \ {r} :
        (last'.op # "copy" /\ last'.target \in Reach(heap, r2))
            => Snapshot(heap', buf', r) = Snapshot(heap, buf, r)

\* C8: c = s.copy() has the value, stamp, state_id, direction and class of s, and
\* a plus, a block-setter write, a stamp change or an evaluate applied to one of
\* s and c leaves the value and stamp of the other, and of each of its
\* sub-states, unchanged.
C8_CopyIndependence ==
    /\ []CopyLooksTheSame
    /\ [][OtherUntouched]_vars

\* the position block of a pose inside a copied composite was written, and the
\* pose at the same place of the original still has its own position
C8_Witness ==
    /\ roots.y # 0
    /\ IsComposite(roots.y)
    /\ last.op = "position.setter"
    /\ \E i \in DOMAIN heap[roots.y].subs :
          /\ last.target = heap[roots.y].subs[i]
          /\ buf[heap[last.target].value] # buf[heap[heap[roots.x].subs[i]].value]

\* the last call was a jacobian or covariance of one of the kinematic models or
\* the jacobian of the range model
DerivativeCalls == {"jacobian", "covariance"}

\* on a state perturbed on the left the call raised NotImplementedError
LeftIsRefused ==
    (last.op \in DerivativeCalls /\ heap[last.target].direction = "left")
        => last.ret = RetRaise("NotImplementedError")

C10_BodyFrameVelocityBothDirections ==
    (/\ last.op \in DerivativeCalls
     /\ last.args.model = "BodyFrameVelocity"
     /\ heap[last.target].cls = "SE2State"
     /\ heap[last.target].direction \in {"right", "left"})
        => last.ret.tag = "matrix"

\* the wrapped model's own result on the sub-state the identifier addresses
OnAddressed(op, model, o) ==
    LET sub == heap[o].subs[CHOOSE i \in Matches(o, model.state_id) :
                               \A j \in Matches(o, model.state_id) : i <= j]
    IN  IF op = "evaluate" THEN Measurement_evaluate(model.model, heap, buf, sub)
        ELSE IF op = "jacobian" THEN Measurement_jacobian(model.model, heap, buf, sub)
        ELSE Measurement_covariance(model.model, heap, buf, sub)

\* the slice of the sub-state the identifier addresses
AddressedSlice(model, o) ==
    heap[o].slices[CHOOSE i \in Matches(o, model.state_id) :
                      \A j \in Matches(o, model.state_id) : i <= j]

\* M is native inside the slice and zero outside it, over all dof columns
Scattered(M, native, slc, dof) ==
    /\ M.tag = "matrix"
    /\ M.shape = <<native.shape[1], dof>>
    /\ \A i \in 1..native.shape[1] : \A j \in 1..dof :
          Cells(M)[i][j] = IF slc.start < j /\ j <= slc.stop
                           THEN Cells(native)[i][j - slc.start]
                           ELSE ZeroCell

\* the last call was made on a CompositeMeasurementModel whose identifier the
\* composite holds
MeasuredById ==
    /\ last.op \in {"evaluate", "jacobian", "covariance"}
    /\ last.args.model.cls = "CompositeMeasurementModel"
    /\ Matches(last.target, last.args.model.state_id) # {}

\* C11: CompositeMeasurementModel.jacobian on a composite holding the
\* identifier returns a matrix with the rows of the wrapped model's Jacobian and
\* dof columns, equal to that Jacobian inside the addressed sub-state's slice and
\* zero outside it (and fails as the wrapped model fails on that sub-state);
\* evaluate and covariance return what the wrapped model returns on it.
C11_CompositeMeasurementScatter ==
    MeasuredById =>
        LET native == OnAddressed(last.op, last.args.model, last.target)
        IN  IF ~native.ok THEN last.ret = RetRaise(native.exc)
            ELSE IF last.op = "jacobian"
            THEN Scattered(last.ret, native.val,
                           AddressedSlice(last.args.model, last.target),
                           Dof(heap, last.target))
            ELSE last.ret = native.val

\* a two-row Jacobian scattered into the middle one of three slices, for a pose
\* that was moved
C11_Witness ==
    /\ MeasuredById
    /\ last.op = "jacobian"
    /\ last.ret.tag = "matrix"
    /\ last.ret.shape[1] = 2
    /\ Len(heap[last.target].subs) = 3
    /\ AddressedSlice(last.args.model, last.target) = heap[last.target].slices[2]
    /\ \E p \in Range(heap[last.target].subs) :
          heap[p].cls = "SE2State" /\ buf[heap[p].value] # GroupIdentity("SE2")

\* the dict is not empty, names only identifiers the composite holds, and its
\* blocks have the same number of rows
WellFormedDict(o, block_dict) ==
    /\ block_dict # <<>>
    /\ \A k \in DOMAIN block_dict :
          /\ Matches(o, block_dict[k].id) # {}
          /\ block_dict[k].block.shape[1] = block_dict[1].block.shape[1]

\* the slice of the first sub-state of o carrying the identifier
SliceOfId(o, id) ==
    heap[o].slices[CHOOSE i \in Matches(o, id) : \A j \in Matches(o, id) : i <= j]

\* C12: CompositeState.jacobian_from_blocks(block_dict), given a non-empty dict
\* from identifiers of the composite to blocks of m rows, returns an m x dof
\* matrix equal to each block inside its sub-state's slice and zero elsewhere.
C12_CompositeJacobianFromBlocks ==
    (/\ last.op = "jacobian_from_blocks"
     /\ last.args.cls = "CompositeState"
     /\ WellFormedDict(last.target, last.args.block_dict))
        => LET d == last.args.block_dict
               o == last.target
           IN  /\ last.ret.tag = "matrix"
               /\ last.ret.shape = <<d[1].block.shape[1], Dof(heap, o)>>
               /\ \A i \in 1..last.ret.shape[1] : \A j \in 1..last.ret.shape[2] :
                     IF \E k \in DOMAIN d : SliceOfId(o, d[k].id).start < j
                                            /\ j <= SliceOfId(o, d[k].id).stop
                     THEN \E k \in DOMAIN d :
                             /\ SliceOfId(o, d[k].id).start < j
                             /\ j <= SliceOfId(o, d[k].id).stop
                             /\ Cells(last.ret)[i][j]
                                    = Cells(d[k].block)[i][j - SliceOfId(o, d[k].id).start]
                     ELSE Cells(last.ret)[i][j] = ZeroCell

\* the first column of the class's block of the name in the tangent ordering of
\* its group: attitude, then (velocity, then) position
CanonicalStart(cls, name) ==
    IF name = "attitude" THEN 0
    ELSE IF cls = "SE2State" THEN 1
    ELSE IF cls = "SE3State" THEN 3
    ELSE IF name = "velocity" THEN 3
    ELSE 6

\* C13: jacobian_from_blocks of each Lie state class (SO2State, SO3State,
\* SE2State, SE3State, SE23State), given any subset of its named blocks, the
\* empty one included, returns a matrix with dof columns, each given block in
\* its columns of the group's tangent ordering and zeros in the others.
C13_LieJacobianFromBlocks ==
    (last.op = "jacobian_from_blocks" /\ last.args.cls \in BlockClasses)
        => LET cls == last.args.cls
               blocks == last.args.blocks
           IN  /\ last.ret.tag = "matrix"
               /\ last.ret.shape[2] = ClassDof(cls)
               /\ \A n \in NamedBlocks(cls) :
                     \A i \in 1..last.ret.shape[1] : \A j \in 1..BlockDim(cls, n) :
                         Cells(last.ret)[i][CanonicalStart(cls, n) + j]
                             = IF blocks[n].tag = "None" THEN ZeroCell
                               ELSE Cells(blocks[n])[i][j]

\* the last call was one of ops on the composite process model
ProcessCalled(ops) ==
    last.op \in ops /\ last.args.model.cls = "CompositeProcessModel"

\* what model i of the list returns on sub-state i with sub-input i
NativeOf(which, i) ==
    LET model == last.args.model.model_list[i]
        sub == heap[last.target].subs[i]
    IN  IF which = "jacobian"
        THEN ProcessModel_jacobian(model, heap, buf, sub, last.args.u[i], last.args.dt)
        ELSE ProcessModel_covariance(model, heap, buf, sub, last.args.u[i], last.args.dt)

\* there is a model for every sub-state, and each returns on its sub-state
EveryModelReturns(which) ==
    /\ Len(last.args.model.model_list) >= Len(heap[last.target].subs)
    /\ \A i \in DOMAIN heap[last.target].subs : NativeOf(which, i).ok

\* M is dof x dof; inside the slice of sub-state k, rows and columns, it is
\* what model k returns, and it is zero off these blocks
BlockDiagonal(M, which) ==
    LET o == last.target
        sl == heap[o].slices
        in(k, i) == sl[k].start < i /\ i <= sl[k].stop
    IN  /\ M.tag = "matrix"
        /\ M.shape = <<Dof(heap, o), Dof(heap, o)>>
        /\ \A i, j \in 1..Dof(heap, o) :
              IF \E k \in DOMAIN sl : in(k, i) /\ in(k, j)
              THEN \A k \in DOMAIN sl :
                      (in(k, i) /\ in(k, j))
                          => Cells(M)[i][j]
                                 = Cells(NativeOf(which, k).val)[i - sl[k].start][j - sl[k].start]
              ELSE Cells(M)[i][j] = ZeroCell

\* a returning evaluate leaves in sub-state i what model i of the list makes of
\* sub-state i and sub-input i, and leaves the list of sub-states as it was
EvaluateByPosition ==
    (/\ last'.op = "evaluate"
     /\ last'.args.model.cls = "CompositeProcessModel"
     /\ last'.ret.tag # "raise")
        => LET o == last'.target
           IN  /\ last'.ret = RetRef(o)
               /\ heap'[o].subs = heap[o].subs
               /\ \A i \in DOMAIN heap[o].subs :
                     LET sub == heap[o].subs[i]
                         r == ModelEvaluate(last'.args.model.model_list[i].cls, heap, buf,
                                            sub, last'.args.u[i], last'.args.dt)
                     IN  /\ buf'[heap'[sub].value] = r.buf[r.heap[sub].value]
                         /\ [heap'[sub] EXCEPT !.value = 0] = [heap[sub] EXCEPT !.value = 0]

JacobianBlockDiagonal ==
    (ProcessCalled({"jacobian", "covariance"}) /\ EveryModelReturns(last.op))
        => BlockDiagonal(last.ret, last.op)

NoiseOf(model) ==
    IF model.cls = "RelativeBodyFrameVelocity" THEN {model.Q1, model.Q2} ELSE {model.Q}

IsSquare(Q) == Q.shape[1] = Q.shape[2]

\* C15: constructing SingleIntegrator, BodyFrameVelocity or
\* RelativeBodyFrameVelocity with a noise matrix that is not square fails in
\* the constructor, so no model object holds a noise matrix that is not square.
C15_NonSquareNoiseRefused ==
    /\ (last.op = "__init__" /\ \E k \in DOMAIN last.args.noise : ~IsSquare(last.args.noise[k]))
           => last.ret.tag = "raise"
    /\ \A k \in DOMAIN models : \A Q \in NoiseOf(models[k]) : IsSquare(Q)

\* value, stamp, state_id, direction and dof of a state and of its sub-states
Observed(h, b, o) ==
    [state |-> Snapshot(h, b, o), dof |-> Dof(h, o),
     dofs |-> [i \in DOMAIN h[o].subs |-> h[h[o].subs[i]].dof]]

\* the step is an evaluate of a process model or a plus
ChangesState ==
    \/ last'.op = "plus"
    \/ last'.op = "evaluate" /\ last'.args.model.cls = "CompositeProcessModel"

SizeOf(ret) == IF Len(ret.shape) = 1 THEN ret.shape[1] ELSE ret.shape[1] * ret.shape[2]

\* a composite plus or evaluate that raises has changed no sub-state
RaisesUntouched ==
    (last'.op \in {"plus", "evaluate"} /\ last'.ret.tag = "raise")
        => Observed(heap', buf', last'.target) = Observed(heap, buf, last'.target)

\* a composite plus that returns has called plus on every sub-state
PlusReachesAll ==
    (last'.op = "plus" /\ last'.ret.tag # "raise")
        => Len(last'.calls) = Len(heap[last'.target].subs)

\* a composite minus that returns, returns dof entries
MinusIsFull ==
    (last'.op = "minus" /\ last'.ret.tag # "raise")
        => SizeOf(last'.ret) = Dof(heap, last'.target)

\* C17: CompositeState.plus, CompositeState.minus and
\* CompositeProcessModel.evaluate succeed completely (every sub-state updated,
\* a tangent vector of exactly dof entries returned) or fail having updated no
\* sub-state, whatever the length of dx, the number of sub-states of the other
\* composite or the length of the model list.
C17_NoPartialFailure ==
    [][RaisesUntouched /\ PlusReachesAll /\ MinusIsFull]_vars

====
